---- MODULE Spec2Model ----
(***************************************************************************)
(* The layered image-composition engine of screenshot-showcase:            *)
(*   scripts/approach_10_hybrid.py   ScreenshotEngine and its helpers      *)
(*   scripts/approach_3d_parallax.py create_3d_parallax_screenshot         *)
(*   scripts/approach_01_pil_mesh.py create_mesh_gradient                  *)
(*                                                                         *)
(* An image is a record [w, h, mode, layers]: its size, its pixel mode and *)
(* the layers composited onto it, in the order the code composites them.   *)
(* An optional dict key is a sequence of length 0 (absent) or 1 (present). *)
(***************************************************************************)
EXTENDS Integers, Sequences, FiniteSets, TLC

VARIABLES
    config,        \* the config dict handed to ScreenshotEngine
    style,         \* ScreenshotEngine.style
    colors,        \* ScreenshotEngine.colors
    rawDirExists,  \* the raw input directory exists
    fileState,     \* what raw_dir/1.png is: missing, corrupt or a decodable image
    pc,            \* where generate_all is
    idx,           \* generate_all's loop index i
    outputs,       \* the files written so far: output name -> image
    error,         \* the exception that left generate_all, or "none"
    rng,           \* the state of the process-wide generator of module random
    parallax,      \* create_3d_parallax_screenshot: [pc, path, img, err]
    mesh,          \* the mesh-gradient calls made so far, per generator and seed
    threads,       \* two premium renders run side by side: thread -> [seed, pc, blobs]
    main,          \* approach_10_hybrid.py main: its position and the dicts it holds
    call,          \* one call of a helper function: its arguments and what it returned
    runner         \* run_all.py main: its position, the approaches run and their results

vars == <<config, style, colors, rawDirExists, fileState, pc, idx, outputs,
          error, rng, parallax, mesh, threads, main, call, runner>>

engineVars == <<config, style, colors, rawDirExists, fileState, pc, idx, outputs, error>>

-----------------------------------------------------------------------------
(* Bounds of the model *)
MaxHexLen == 7
MaxStops == 3

MaxShots == 2      \* entries in config['screenshots']
MaxColors == 2     \* colors in config['color_scheme']
MaxRng == 3        \* initial states of the process-wide generator that are tried
MaxCalls == 3      \* calls of the mesh-gradient generators in one run
MaxDraws == 2      \* draws other code makes from the generator in one run
MaxTextLen == 5    \* characters in a text handed to wrap_text

-----------------------------------------------------------------------------
(* Constants of the program *)

IPHONE_W == 1290
IPHONE_H == 2796
CORNER_RADIUS == 55
PLACEHOLDER_W == 390
PLACEHOLDER_H == 844
NUM_ORBS == 4
NUM_BLOBS == 5

-----------------------------------------------------------------------------
(* dict.get and small helpers *)

Absent == <<>>
Present(v) == <<v>>
Has(opt) == opt # <<>>
Get(opt, default) == IF opt = <<>> THEN default ELSE opt[1]

Min(a, b) == IF a <= b THEN a ELSE b
Max(a, b) == IF a >= b THEN a ELSE b

\* Python's a // b for b > 0 (floor division), also for negative a
FloorDiv(a, b) == IF a >= 0 THEN a \div b ELSE -((-a + b - 1) \div b)

Ok(v) == [err |-> "none", val |-> v]
Fail(e) == [err |-> e, val |-> <<>>]

-----------------------------------------------------------------------------
(* Colors: a hex string is its sequence of characters *)

HexDigits == <<"0","1","2","3","4","5","6","7","8","9","a","b","c","d","e","f">>
HexUpper == <<"0","1","2","3","4","5","6","7","8","9","A","B","C","D","E","F">>

IsHexDigit(ch) == \E k \in 1..16 : HexDigits[k] = ch \/ HexUpper[k] = ch
HexVal(ch) == (CHOOSE k \in 1..16 : HexDigits[k] = ch \/ HexUpper[k] = ch) - 1

\* str.lstrip('#'): every leading '#' is removed
RECURSIVE LStripHash(_)
LStripHash(s) ==
    IF s # <<>> /\ Head(s) = "#" THEN LStripHash(Tail(s)) ELSE s

\* s[i:i+2] for the 0-based i: a slice is cut short at the end of the string
Slice2(s, i) == SubSeq(s, i + 1, Min(i + 2, Len(s)))

\* int(t, 16) of a slice of at most 2 characters (a sign is accepted by int)
Int16(t) ==
    IF Len(t) = 0 THEN Fail("ValueError")
    ELSE IF Len(t) = 1
         THEN (IF IsHexDigit(t[1]) THEN Ok(HexVal(t[1])) ELSE Fail("ValueError"))
    ELSE IF IsHexDigit(t[1]) /\ IsHexDigit(t[2]) THEN Ok(16 * HexVal(t[1]) + HexVal(t[2]))
    ELSE IF t[1] = "+" /\ IsHexDigit(t[2]) THEN Ok(HexVal(t[2]))
    ELSE IF t[1] = "-" /\ IsHexDigit(t[2]) THEN Ok(0 - HexVal(t[2]))
    ELSE Fail("ValueError")

hex_to_rgb(hex_color) ==
    LET s == LStripHash(hex_color)
        ch == [k \in 1..3 |-> Int16(Slice2(s, 2 * (k - 1)))]
    IN  IF \E k \in 1..3 : ch[k].err # "none" THEN Fail("ValueError")
        ELSE Ok(<<ch[1].val, ch[2].val, ch[3].val>>)

Black == <<"#","0","0","0","0","0","0">>
White == <<"#","F","F","F","F","F","F">>

\* the default of config.get('color_scheme', ...)
DefaultColors == << <<"#","6","6","7","e","e","a">>, <<"#","7","6","4","b","a","2">> >>

\* the backgrounds of luminance exactly 0.5 for which the float expression
\* (0.299 * r + 0.587 * g + 0.114 * b) / 255 evaluates to 0.49999999999999994;
\* for every other r, g, b in 0..255 the float comparison agrees with the exact one
LuminanceRoundsBelowHalf ==
    {
      <<0, 204, 68>>, <<12, 174, 191>>, <<15, 195, 75>>, <<23, 175, 157>>,
      <<30, 186, 82>>, <<38, 166, 164>>, <<41, 187, 48>>, <<53, 157, 171>>,
      <<56, 178, 55>>, <<64, 158, 137>>, <<71, 169, 62>>, <<79, 149, 144>>,
      <<86, 160, 69>>, <<87, 129, 226>>, <<94, 140, 151>>, <<97, 161, 35>>,
      <<102, 120, 233>>, <<112, 152, 42>>, <<117, 111, 240>>, <<120, 132, 124>>,
      <<127, 143, 49>>, <<132, 102, 247>>, <<135, 123, 131>>, <<138, 144, 15>>,
      <<143, 103, 213>>, <<147, 93, 254>>, <<153, 135, 22>>, <<158, 94, 220>>,
      <<161, 115, 104>>, <<168, 126, 29>>, <<173, 85, 227>>, <<176, 106, 111>>,
      <<188, 76, 234>>, <<194, 118, 2>>, <<198, 108, 43>>, <<199, 77, 200>>,
      <<209, 109, 9>>, <<214, 68, 207>>, <<217, 89, 91>>, <<224, 100, 16>>,
      <<232, 80, 98>>, <<239, 91, 23>>, <<240, 60, 180>>, <<255, 51, 187>> }

\* luminance < 0.5 as the float expression decides it
get_text_color(bg) ==
    IF \/ 2 * (299 * bg[1] + 587 * bg[2] + 114 * bg[3]) < 255 * 1000
       \/ <<bg[1], bg[2], bg[3]>> \in LuminanceRoundsBelowHalf
    THEN <<255, 255, 255>> ELSE <<30, 30, 30>>

-----------------------------------------------------------------------------
(* Fonts and text measurement *)

\* the width draw.textbbox measures for text set at a font size
TextWidth(text, size) == (Len(text) * size * 11) \div 20

\* a fit_text that steps down by 10
RECURSIVE fit_text_step_ten(_, _, _)
fit_text_step_ten(text, font_size, max_width) ==
    IF font_size > 20
    THEN IF TextWidth(text, font_size) <= max_width THEN font_size
         ELSE fit_text_step_ten(text, font_size - 10, max_width)
    ELSE 20

\* the font size fit_text settles on: the first of font_size, font_size - 5, ...
\* above 20 at which the text fits, and 20 when none does
RECURSIVE fit_text(_, _, _)
fit_text(text, font_size, max_width) ==
    IF font_size > 20
    THEN IF TextWidth(text, font_size) <= max_width THEN font_size
         ELSE fit_text(text, font_size - 5, max_width)
    ELSE 20

-----------------------------------------------------------------------------
(* Images and layers *)

\* src names what is drawn (a string), data holds its parameters (a sequence)
Layer(kind, x, y, w, h, text, src, data) ==
    [kind |-> kind, x |-> x, y |-> y, w |-> w, h |-> h, text |-> text, src |-> src,
     data |-> data]

\* Image.new(mode, (w, h), fill): a canvas holding its fill and nothing else
NewImage(mode, w, h, src, data) ==
    [w |-> w, h |-> h, mode |-> mode,
     layers |-> <<Layer("background", 0, 0, w, h, "", src, data)>>]

\* final.paste(layer, (x, y), mask) and the ImageDraw calls: the canvas keeps its
\* size and mode, whatever the layer's size and position (PIL clips)
Composite(img, layer) == [img EXCEPT !.layers = Append(@, layer)]

\* img.convert(mode)
Convert(img, mode) == [img EXCEPT !.mode = mode]

\* draw.text((x, y), text, ...): an empty text draws nothing
DrawText(img, kind, x, y, text, size) ==
    Composite(img, Layer(kind, x, y, TextWidth(text, size), size, text, "text", <<>>))

\* draw.text((cx, cy), text, anchor="mm"): the text is centred on (cx, cy)
DrawTextMM(img, kind, cx, cy, text, size) ==
    DrawText(img, kind, cx - (TextWidth(text, size) \div 2), cy - (size \div 2), text, size)

\* int(IPHONE_SIZE[0] * f) and int(IPHONE_SIZE[1] * f) for f in thousandths,
\* where the product is not within rounding of an integer
WidthAt(permille) == (IPHONE_W * permille) \div 1000
HeightAt(permille) == (IPHONE_H * permille) \div 1000

\* int(IPHONE_SIZE[0] * ratio) as the float product truncates: 1290 * 0.7 is
\* 902.9999999999999 in binary floating point
TargetWidth(pct) ==
    CASE pct = 65 -> 838
      [] pct = 70 -> 902
      [] pct = 50 -> 645

-----------------------------------------------------------------------------
(* The raw input directory *)

FileStates == {"missing", "corrupt", "portrait", "landscape"}

\* the size of a decodable input image
InputSize(st) == IF st = "portrait" THEN <<1179, 2556>> ELSE <<1000, 500>>

\* os.path.join(raw_dir, shot.get('image', '')): with no image the path is the
\* directory itself
raw_path(shot) == IF Get(shot.image, "") = "" THEN "dir" ELSE "file"

\* os.path.exists(path); the empty path "" never exists
PathExists(path) ==
    IF path = "" THEN FALSE
    ELSE IF path = "dir" THEN rawDirExists
    ELSE rawDirExists /\ fileState # "missing"

\* Image.open(path).convert('RGBA') of a path that exists
ImageOpen(path) ==
    IF path = "dir" THEN Fail("IsADirectoryError")
    ELSE IF fileState = "corrupt" THEN Fail("UnidentifiedImageError")
    ELSE Ok([w |-> InputSize(fileState)[1], h |-> InputSize(fileState)[2], src |-> "file"])

\* ScreenshotEngine._load_screenshot: the scaled, rounded screenshot or placeholder
\* as [w, h, src]
load_screenshot(path, pct) ==
    LET opened == IF PathExists(path) THEN ImageOpen(path)
                  ELSE Ok([w |-> PLACEHOLDER_W, h |-> PLACEHOLDER_H, src |-> "placeholder"])
    IN  IF opened.err # "none" THEN opened
        ELSE LET target_width == TargetWidth(pct)
                 target_height == (opened.val.h * target_width) \div opened.val.w
             IN  Ok([w |-> target_width, h |-> target_height, src |-> opened.val.src])

-----------------------------------------------------------------------------
(* The process-wide random generator (module random) *)

\* random.seed(seed): the state depends on the seed alone
RngSeed(seed) == (seed * 7 + 3) % 1009

\* one draw advances the state
RngNext(s) == (s * 31 + 17) % 1009

\* random.randint(a, b) drawn in state s: the value (the state becomes RngNext(s))
RandInt(s, a, b) == a + (RngNext(s) % (b - a + 1))

\* one orb drawn from state s: four draws, cx, cy, radius in rlo..rhi, and the
\* index of random.choice(colors)
DrawOrb(s, width, height, rlo, rhi, ncolors) ==
    LET s1 == RngNext(s)
        s2 == RngNext(s1)
        s3 == RngNext(s2)
    IN  [cx |-> RandInt(s, 0, width), cy |-> RandInt(s1, 0, height),
         radius |-> RandInt(s2, rlo, rhi), color |-> RandInt(s3, 1, ncolors),
         rng |-> RngNext(s3)]

\* the orbs drawn by n turns of the loop from state s: [orbs, rng]
RECURSIVE DrawOrbs(_, _, _, _, _, _, _)
DrawOrbs(s, n, width, height, rlo, rhi, ncolors) ==
    IF n = 0 THEN [orbs |-> <<>>, rng |-> s]
    ELSE LET o == DrawOrb(s, width, height, rlo, rhi, ncolors)
             rest == DrawOrbs(o.rng, n - 1, width, height, rlo, rhi, ncolors)
         IN  [orbs |-> <<[cx |-> o.cx, cy |-> o.cy, radius |-> o.radius,
                          color |-> o.color]>> \o rest.orbs,
              rng |-> rest.rng]

-----------------------------------------------------------------------------
(* Background generators *)

\* colors[:2]
FirstTwo(cs) == SubSeq(cs, 1, Min(2, Len(cs)))

create_gradient_background(width, height, cs) ==
    IF Len(cs) < 2 THEN Fail("IndexError")
    ELSE IF hex_to_rgb(cs[1]).err # "none" \/ hex_to_rgb(cs[2]).err # "none"
         THEN Fail("ValueError")
    ELSE Ok(NewImage("RGB", width, height, "gradient", <<cs[1], cs[2]>>))

\* create_mesh_background with the generator in state s: [err, val, rng]; the
\* generator is seeded before anything can fail
create_mesh_background(s, width, height, cs, seed) ==
    LET seeded == RngSeed(seed)
        base == create_gradient_background(width, height, FirstTwo(cs))
        drawn == DrawOrbs(seeded, NUM_ORBS, width, height, 400, 800, Len(cs))
        bad == {k \in 1..NUM_ORBS : hex_to_rgb(cs[drawn.orbs[k].color]).err # "none"}
        firstBad == CHOOSE k \in bad : \A j \in bad : k <= j
    IN  IF base.err # "none" THEN [err |-> base.err, val |-> <<>>, rng |-> seeded]
        ELSE IF bad # {}
             THEN [err |-> "ValueError", val |-> <<>>,
                   rng |-> DrawOrbs(seeded, firstBad, width, height, 400, 800, Len(cs)).rng]
        ELSE [err |-> "none",
              val |-> NewImage("RGB", width, height, "mesh", <<cs[1], cs[2], drawn.orbs>>),
              rng |-> drawn.rng]

create_solid_background(width, height, color) ==
    IF hex_to_rgb(color).err # "none" THEN Fail("ValueError")
    ELSE Ok(NewImage("RGB", width, height, "solid", <<color>>))

-----------------------------------------------------------------------------
(* Effects *)

\* create_shadow(img, blur, opacity, offset): the buffer's size and, in data, the
\* filled rectangle <<x0, y0, x1, y1>> inside it
create_shadow(img, blur, opacity, offset) ==
    [w |-> img.w + 80, h |-> img.h + 80,
     rect |-> <<40 + offset[1], 40 + offset[2],
                img.w + 40 + offset[1], img.h + 40 + offset[2]>>,
     blur |-> blur, opacity |-> opacity]

ShadowLayer(shadow, x, y) ==
    Layer("shadow", x, y, shadow.w, shadow.h, "", "shadow", shadow.rect)

ScreenshotLayer(screenshot, x, y) ==
    Layer("screenshot", x, y, screenshot.w, screenshot.h, "", screenshot.src, <<>>)

\* the two pastes the other way round: the screenshot first, its shadow over it
PasteSubjectFirst(img, shadow, screenshot, x, y) ==
    Composite(Composite(img, ScreenshotLayer(screenshot, x, y)),
              ShadowLayer(shadow, x - 40, y - 25))

\* final.paste(shadow, (x - 40, y - 25), shadow) and then
\* final.paste(screenshot, (x, y), screenshot)
PasteShadowed(img, shadow, screenshot, x, y) ==
    Composite(Composite(img, ShadowLayer(shadow, x - 40, y - 25)),
              ScreenshotLayer(screenshot, x, y))

-----------------------------------------------------------------------------
(* The style recipes of ScreenshotEngine: each returns [err, img, rng] *)

Raised(e, s) == [err |-> e, img |-> <<>>, rng |-> s]
Saved(img, s) == [err |-> "none", img |-> img, rng |-> s]

\* self.colors[index % len(self.colors)]
ColorAt(cs, index) ==
    IF Len(cs) = 0 THEN Fail("ZeroDivisionError") ELSE Ok(cs[(index % Len(cs)) + 1])

generate_premium(s, path, shot, index) ==
    LET bg == create_mesh_background(s, IPHONE_W, IPHONE_H, colors, index * 17)
        loaded == load_screenshot(path, 65)
        glow_color == ColorAt(colors, index)
    IN  IF bg.err # "none" THEN Raised(bg.err, bg.rng)
        ELSE IF loaded.err # "none" THEN Raised(loaded.err, bg.rng)
        ELSE IF glow_color.err # "none" THEN Raised(glow_color.err, bg.rng)
        ELSE IF hex_to_rgb(glow_color.val).err # "none" THEN Raised("ValueError", bg.rng)
        ELSE
        LET final == Convert(bg.val, "RGBA")
            screenshot == loaded.val
            shadow == create_shadow(screenshot, 25, 80, <<0, 15>>)
            x == FloorDiv(IPHONE_W - screenshot.w, 2)
            y == HeightAt(350)
            l1 == Composite(final, Layer("glow", x - 60, y - 60, screenshot.w + 120,
                                         screenshot.h + 120, "", "glow",
                                         <<glow_color.val>>))
            l3 == PasteShadowed(l1, shadow, screenshot, x, y)
            headline == Get(shot.headline, "")
            subtitle == Get(shot.subtitle, "")
            size == fit_text(headline, WidthAt(70), IPHONE_W - 160)
            l4 == DrawText(l3, "headline", FloorDiv(IPHONE_W - TextWidth(headline, size), 2),
                           HeightAt(80), headline, size)
            l5 == IF subtitle # ""
                  THEN DrawText(l4, "subtitle",
                                FloorDiv(IPHONE_W - TextWidth(subtitle, WidthAt(40)), 2),
                                HeightAt(160), subtitle, WidthAt(40))
                  ELSE l4
        IN  Saved(Convert(l5, "RGB"), bg.rng)

generate_minimal(s, path, shot, index) ==
    LET bg_color == ColorAt(colors, index)
        bg == create_solid_background(IPHONE_W, IPHONE_H, bg_color.val)
        loaded == load_screenshot(path, 70)
    IN  IF bg_color.err # "none" THEN Raised(bg_color.err, s)
        ELSE IF bg.err # "none" THEN Raised(bg.err, s)
        ELSE IF loaded.err # "none" THEN Raised(loaded.err, s)
        ELSE
        LET final == Convert(bg.val, "RGBA")
            screenshot == loaded.val
            shadow == create_shadow(screenshot, 20, 60, <<0, 15>>)
            x == FloorDiv(IPHONE_W - screenshot.w, 2)
            y == HeightAt(320)
            l2 == PasteShadowed(final, shadow, screenshot, x, y)
            text_color == get_text_color(hex_to_rgb(bg_color.val).val)
            headline == Get(shot.headline, "")
            size == WidthAt(70)
            l3 == Composite(l2, Layer("headline",
                                      FloorDiv(IPHONE_W - TextWidth(headline, size), 2),
                                      HeightAt(100), TextWidth(headline, size), size,
                                      headline, "text", text_color))
        IN  Saved(Convert(l3, "RGB"), s)

story_colors ==
    << << <<"#","2","D","1","B","4","E">>, <<"#","1","A","1","A","2","E">> >>,
       << <<"#","1","A","1","A","2","E">>, <<"#","1","6","2","1","3","E">> >>,
       << <<"#","1","6","2","1","3","E">>, <<"#","0","F","3","4","6","0">> >>,
       << <<"#","0","F","3","4","6","0">>, <<"#","1","A","4","B","1","A">> >>,
       << <<"#","1","A","4","B","1","A">>, <<"#","2","D","2","D","0","D">> >> >>

\* the progress bar of _generate_storytelling: segment i of total spans
\* x1 = 80 + i * segment + 5 to x2 = 80 + (i + 1) * segment - 5 with
\* segment = bar_width / total; data holds <<i, total, x1 * total, x2 * total, lit>>
ProgressBar(img, first, total, index) ==
    [img EXCEPT !.layers = @ \o
        [k \in 1..(total - first) |->
            LET i == first + k - 1
            IN  Layer("progress", 0, 120, 0, 8, "", "segment",
                      <<i, total,
                        85 * total + i * (IPHONE_W - 160),
                        75 * total + (i + 1) * (IPHONE_W - 160),
                        i <= index>>)]]

generate_storytelling(s, path, shot, index) ==
    LET cs == story_colors[(index % Len(story_colors)) + 1]
        bg == create_gradient_background(IPHONE_W, IPHONE_H, cs)
        total == Len(Get(config.screenshots, <<>>))
        loaded == load_screenshot(path, 65)
    IN  IF bg.err # "none" THEN Raised(bg.err, s)
        ELSE IF total = 0 THEN Raised("ZeroDivisionError", s)
        ELSE IF loaded.err # "none" THEN Raised(loaded.err, s)
        ELSE
        LET final == Convert(bg.val, "RGBA")
            l1 == ProgressBar(final, 0, total, index)
            screenshot == loaded.val
            x == FloorDiv(IPHONE_W - screenshot.w, 2)
            y == HeightAt(350)
            l2 == Composite(l1, ScreenshotLayer(screenshot, x, y))
            headline == Get(shot.headline, "")
            size == WidthAt(65)
            l3 == DrawText(l2, "headline", FloorDiv(IPHONE_W - TextWidth(headline, size), 2),
                           HeightAt(160), headline, size)
            step_x == IPHONE_W - 100
            step_y == IPHONE_H - 150
            l4 == Composite(l3, Layer("step_circle", step_x - 50, step_y - 50, 100, 100,
                                      "", "ellipse", <<>>))
            l5 == DrawTextMM(l4, "step_text", step_x, step_y, ToString(index + 1), 55)
        IN  Saved(Convert(l5, "RGB"), s)

default_messages ==
    <<[from |-> "friend", text |-> "you need to try this app"],
      [from |-> "me", text |-> "which one"],
      [from |-> "friend", text |-> "the habit tracker, its actually good"]>>

\* the bubbles of _create_imessage from message k on, the first at height y
RECURSIVE Bubbles(_, _, _, _)
Bubbles(img, messages, k, y) ==
    IF k > Len(messages) THEN img
    ELSE LET msg == messages[k]
             bubble_w == Min(TextWidth(msg.text, 48) + 50, 902)
             x == IF msg.from = "me" THEN IPHONE_W - 60 - bubble_w ELSE 60
             l1 == Composite(img, Layer("bubble", x, y, bubble_w, 80, "", msg.from, <<>>))
             l2 == DrawText(l1, "message", x + 25, y + 18, msg.text, 48)
         IN  Bubbles(l2, messages, k + 1, y + 80 + 15)

create_imessage(s, path, shot) ==
    LET img == NewImage("RGB", IPHONE_W, IPHONE_H, "flat", <<242, 242, 247>>)
        messages == default_messages
        l1 == Bubbles(img, messages, 1, 300)
        y == 300 + Len(messages) * 95
        loaded == load_screenshot(path, 50)
    IN  IF PathExists(path)
        THEN IF loaded.err # "none" THEN Raised(loaded.err, s)
             ELSE Saved(Composite(l1, ScreenshotLayer(loaded.val, 60, y + 20)), s)
        ELSE Saved(l1, s)

create_notes(s, path, shot) ==
    LET img == NewImage("RGB", IPHONE_W, IPHONE_H, "flat", <<255, 252, 225>>)
        l1 == Composite(img, Layer("lines", 60, 200, IPHONE_W - 120, IPHONE_H - 200,
                                   "", "lines", <<>>))
        l2 == DrawText(l1, "headline", 80, 100, Get(shot.headline, "Notes"), 65)
        l3 == DrawText(l2, "body", 80, 280, "Check out this app!", 48)
    IN  Saved(l3, s)

create_twitter(s, path, shot) ==
    LET img == NewImage("RGB", IPHONE_W, IPHONE_H, "flat", <<0, 0, 0>>)
        l1 == Composite(img, Layer("avatar", 80, 280, 100, 100, "", "ellipse", <<>>))
        l2 == DrawText(l1, "username", 200, 285, "user", 50)
        l3 == DrawText(l2, "handle", 200, 340, "@user", 45)
        l4 == DrawText(l3, "body", 80, 450, "This app changed my life", 52)
    IN  Saved(l4, s)

create_pov(s, path, shot) ==
    LET opened == ImageOpen(path)
        bg == IF PathExists(path)
              THEN NewImage("RGB", IPHONE_W, IPHONE_H, "file", <<>>)
              ELSE NewImage("RGB", IPHONE_W, IPHONE_H, "flat", <<20, 20, 20>>)
    IN  IF PathExists(path) /\ opened.err # "none" THEN Raised(opened.err, s)
        ELSE
        LET img == Convert(bg, "RGBA")
            l1 == DrawTextMM(img, "pov_label", IPHONE_W \div 2, 250, "POV:", 55)
            l2 == DrawTextMM(l1, "headline", IPHONE_W \div 2, 350,
                             Get(shot.headline, "You found it"), 75)
        IN  Saved(Convert(l2, "RGB"), s)

default_formats == <<"imessage", "notes", "twitter", "pov">>

\* a format lookup that goes by the index alone
format_type_by_index(shot, index) == default_formats[(index % 4) + 1]

\* the format _generate_authentic renders entry index in
format_type(shot, index) == Get(shot.format, default_formats[(index % 4) + 1])

generate_authentic(s, path, shot, index) ==
    LET f == format_type(shot, index)
    IN  IF f = "imessage" THEN create_imessage(s, path, shot)
        ELSE IF f = "notes" THEN create_notes(s, path, shot)
        ELSE IF f = "twitter" THEN create_twitter(s, path, shot)
        ELSE create_pov(s, path, shot)

\* a chain whose final else renders the minimal recipe
RecipeElseMinimal(st) ==
    IF st = "premium" THEN "premium"
    ELSE IF st = "authentic" THEN "authentic"
    ELSE IF st = "minimal" THEN "minimal"
    ELSE IF st = "storytelling" THEN "storytelling"
    ELSE "minimal"

\* the recipe generate_all's if/elif chain picks for a style
Recipe(st) ==
    IF st = "premium" THEN "premium"
    ELSE IF st = "authentic" THEN "authentic"
    ELSE IF st = "minimal" THEN "minimal"
    ELSE IF st = "storytelling" THEN "storytelling"
    ELSE "premium"

\* one turn of generate_all's loop body: the render of entry index
Render(s, shot, index) ==
    LET path == raw_path(shot)
        r == Recipe(style)
    IN  IF r = "premium" THEN generate_premium(s, path, shot, index)
        ELSE IF r = "authentic" THEN generate_authentic(s, path, shot, index)
        ELSE IF r = "minimal" THEN generate_minimal(s, path, shot, index)
        ELSE generate_storytelling(s, path, shot, index)

\* an output name that leaves the index out
OutputNameNoIndex(i) == "1_6.5_inch.png"

\* f"{i+1}_6.5_inch.png"
OutputName(i) == ToString(i + 1) \o "_6.5_inch.png"

-----------------------------------------------------------------------------
(* The configurations tried *)

Shot(image, headline, subtitle, format) ==
    [image |-> image, headline |-> headline, subtitle |-> subtitle, format |-> format]

ShotPool ==
    { Shot(Absent, Present("Test"), Absent, Absent),
      Shot(Present("1.png"), Present("Test"), Present("One day at a time"), Absent),
      Shot(Present("1.png"), Absent, Absent, Present("twitter")),
      Shot(Present("1.png"), Present("Test"), Absent, Present("pov")),
      Shot(Absent, Absent, Absent, Present("gif")) }

StylePool == {Absent} \cup { Present(st) : st \in
    {"premium", "authentic", "minimal", "storytelling", "parallax", "glassmorphism", ""} }

\* the color schemes tried are the prefixes of this palette, the empty one included
Palette ==
    <<Black, <<"#","6","6","7","e","e","a">>, <<"#","7","6","4","b","a","2">>,
      <<"#","f","0","9","3","f","b">>, White>>

SeqsUpTo(S, n) == UNION { [1..k -> S] : k \in 0..n }

ConfigPool ==
    [style : StylePool,
     color_scheme : {Absent} \cup { Present(SubSeq(Palette, 1, k)) : k \in 0..MaxColors },
     screenshots : { Present(ss) : ss \in SeqsUpTo(ShotPool, MaxShots) }]

\* ScreenshotEngine.__init__
EngineStyle(cfg) == Get(cfg.style, "premium")
EngineColors(cfg) == Get(cfg.color_scheme, DefaultColors)

-----------------------------------------------------------------------------
(* ScreenshotEngine.generate_all *)

InitEngine ==
    /\ config \in ConfigPool
    /\ style = EngineStyle(config)
    /\ colors = EngineColors(config)
    /\ rawDirExists \in BOOLEAN
    /\ fileState \in FileStates
    /\ (~rawDirExists => fileState = "missing")
    /\ pc = "ready"
    /\ idx = 0
    /\ outputs = <<>>
    /\ error = "none"

\* generate_all is called: screenshots = self.config.get('screenshots', [])
Start ==
    /\ pc = "ready"
    /\ pc' = "loop"
    /\ idx' = 0
    /\ UNCHANGED <<config, style, colors, rawDirExists, fileState, outputs, error, rng,
                   parallax, mesh, threads, main, call, runner>>

\* one turn of the loop: entry idx is rendered and saved, or the render raises and
\* the exception leaves generate_all
RenderEntry ==
    /\ pc = "loop"
    /\ idx < Len(Get(config.screenshots, <<>>))
    /\ LET shot == Get(config.screenshots, <<>>)[idx + 1]
           r == Render(rng, shot, idx)
       IN  /\ rng' = r.rng
           /\ IF r.err = "none"
              THEN /\ outputs' = [n \in (DOMAIN outputs) \cup {OutputName(idx)} |->
                                     IF n = OutputName(idx) THEN r.img ELSE outputs[n]]
                   /\ idx' = idx + 1
                   /\ UNCHANGED <<pc, error>>
              ELSE /\ pc' = "raised"
                   /\ error' = r.err
                   /\ UNCHANGED <<outputs, idx>>
    /\ UNCHANGED <<config, style, colors, rawDirExists, fileState, parallax, mesh, threads, main, call, runner>>

\* the loop is over: generate_all returns
Finish ==
    /\ pc = "loop"
    /\ idx = Len(Get(config.screenshots, <<>>))
    /\ pc' = "done"
    /\ UNCHANGED <<config, style, colors, rawDirExists, fileState, idx, outputs, error,
                   rng, parallax, mesh, threads, main, call, runner>>

Init ==
    /\ InitEngine
    /\ rng = 0
    /\ parallax = <<>>
    /\ mesh = <<>>
    /\ threads = <<>>
    /\ main = <<>>
    /\ call = <<>>
    /\ runner = <<>>

Next == Start \/ RenderEntry \/ Finish

Spec == Init /\ [][Next]_vars

-----------------------------------------------------------------------------
(* approach_3d_parallax.py: create_3d_parallax_screenshot, statement by statement *)

\* create_glow(size, color, intensity) pasted at (x, y)
GlowLayer(kind, x, y, w, h, color) == Layer(kind, x, y, w, h, "", "glow", <<color>>)

\* create_icon_circle(icon, size, color) pasted at (x, y)
IconLayer(kind, x, y, size, color) == Layer(kind, x, y, size, size, "", "icon", <<color>>)

\* create_floating_badge(text, "", ...): the icon is empty, so no room is left for it
BadgeW(text) == TextWidth(text, 38) + 35 * 2
BadgeLayer(x, y, text) == Layer("badge", x, y, BadgeW(text), 38 + 20 * 2, text, "badge", <<>>)

\* create_stat_card is 180 x 120; its shadow buffer is 20 larger each way
StatShadow(x, y) == Layer("card_shadow", x - 10, y - 5, 180 + 20, 120 + 20, "", "shadow",
                          <<10, 15, 180 + 10, 120 + 15>>)
StatCard(x, y, value) == Layer("card", x, y, 180, 120, value, "card", <<>>)

\* the screenshot scaled for the phone: target_height = int(height * 0.55)
ParallaxScreenshot(path) ==
    LET opened == IF PathExists(path) THEN ImageOpen(path)
                  ELSE Ok([w |-> PLACEHOLDER_W, h |-> PLACEHOLDER_H, src |-> "placeholder"])
        target_height == HeightAt(550)
    IN  IF opened.err # "none" THEN opened
        ELSE Ok([w |-> (opened.val.w * target_height) \div opened.val.h,
                 h |-> target_height, src |-> opened.val.src])

\* create_3d_phone_simple(screenshot, tilt): the bezel adds phone_padding = 25 on
\* each side, and the sheared frame is scaled by 0.95
create_3d_phone_simple(screenshot, tilt) ==
    [w |-> ((screenshot.w + 25 * 2) * 95) \div 100,
     h |-> ((screenshot.h + 25 * 2) * 95) \div 100,
     src |-> screenshot.src, tilt |-> tilt]

\* the same seven pastes with the icons ahead of the glows
ParallaxBackIconsFirst ==
    <<IconLayer("back_icon", 100, 400, 60, "#4361ee"),
      IconLayer("back_icon", IPHONE_W - 150, 600, 55, "#f72585"),
      IconLayer("back_icon", 150, IPHONE_H - 600, 50, "#4cc9f0"),
      IconLayer("back_icon", IPHONE_W - 120, IPHONE_H - 400, 45, "#7209b7"),
      GlowLayer("back_glow", IPHONE_W - 400, -100, 600, 600, "#4361ee"),
      GlowLayer("back_glow", -200, IPHONE_H - 500, 700, 700, "#7209b7"),
      GlowLayer("back_glow", 100, (IPHONE_H \div 2) - 200, 400, 400, "#4cc9f0")>>

\* layers 1 and 2: the pastes made before the screenshot is loaded
ParallaxBack ==
    <<GlowLayer("back_glow", IPHONE_W - 400, -100, 600, 600, "#4361ee"),
      GlowLayer("back_glow", -200, IPHONE_H - 500, 700, 700, "#7209b7"),
      GlowLayer("back_glow", 100, (IPHONE_H \div 2) - 200, 400, 400, "#4cc9f0"),
      IconLayer("back_icon", 100, 400, 60, "#4361ee"),
      IconLayer("back_icon", IPHONE_W - 150, 600, 55, "#f72585"),
      IconLayer("back_icon", 150, IPHONE_H - 600, 50, "#4cc9f0"),
      IconLayer("back_icon", IPHONE_W - 120, IPHONE_H - 400, 45, "#7209b7")>>

\* layers 3 to 6: the pastes made once the phone is built
ParallaxFront(phone) ==
    LET phone_x == FloorDiv(IPHONE_W - phone.w, 2) + 50
        phone_y == HeightAt(280)
    IN  <<Layer("phone_shadow", phone_x - 50, phone_y - 30, phone.w + 100, phone.h + 100,
                "", "shadow", <<50, 60, phone.w + 50, phone.h + 50>>),
          Layer("phone", phone_x, phone_y, phone.w, phone.h, "", phone.src, <<>>),
          GlowLayer("phone_glow", phone_x - 100, phone_y - 100, phone.w + 200,
                    phone.h + 200, "#4cc9f0"),
          StatShadow(60, HeightAt(350)),
          StatCard(60, HeightAt(350), "47"),
          StatShadow(IPHONE_W - 220, HeightAt(550)),
          StatCard(IPHONE_W - 220, HeightAt(550), "92%"),
          BadgeLayer(80, HeightAt(180), "4.9 Rating"),
          BadgeLayer(IPHONE_W - BadgeW("50K+ Users") - 80, HeightAt(220), "50K+ Users"),
          BadgeLayer(FloorDiv(IPHONE_W - BadgeW("Free to Start"), 2) - 100, IPHONE_H - 350,
                     "Free to Start"),
          IconLayer("front_icon", 50, IPHONE_H - 500, 75, "#f72585"),
          IconLayer("front_icon", IPHONE_W - 130, 350, 70, "#4cc9f0"),
          IconLayer("front_icon", IPHONE_W - 100, IPHONE_H - 450, 65, "#4361ee")>>

\* layers 7 and 8: headline, subhead and the call-to-action button
ParallaxText(img) ==
    LET headline_y == HeightAt(50)
        cta_y == IPHONE_H - 200
        cta_width == TextWidth("Download Free", 55) + 80
        cta_x == FloorDiv(IPHONE_W - cta_width, 2)
        t1 == Composite(img, Layer("headline_shadow", (IPHONE_W \div 2) + 3
                                     - (TextWidth("Build Habits", 110) \div 2),
                                   headline_y + 3, TextWidth("Build Habits", 110), 110,
                                   "Build Habits", "text", <<>>))
        t2 == Composite(t1, Layer("headline", (IPHONE_W \div 2)
                                     - (TextWidth("Build Habits", 110) \div 2),
                                  headline_y, TextWidth("Build Habits", 110), 110,
                                  "Build Habits", "text", <<>>))
        t3 == Composite(t2, Layer("subhead", (IPHONE_W \div 2)
                                     - (TextWidth("That Actually Stick", 85) \div 2),
                                  headline_y + 120, TextWidth("That Actually Stick", 85), 85,
                                  "That Actually Stick", "text", <<>>))
        t4 == Composite(t3, GlowLayer("cta_glow", cta_x - 30, cta_y - 30, cta_width + 60,
                                      100 + 60, "#4cc9f0"))
        t5 == Composite(t4, Layer("cta_button", cta_x, cta_y, cta_width, 100, "",
                                  "button", <<>>))
    IN  DrawTextMM(t5, "cta_text", IPHONE_W \div 2, cta_y + 50, "Download Free", 55)

\* the paths main hands over: the first raw file, or "" when there is none
ParallaxPaths == {"file", ""}

InitParallax ==
    /\ rawDirExists \in BOOLEAN
    /\ fileState \in FileStates
    /\ (~rawDirExists => fileState = "missing")
    /\ parallax \in [pc : {"start"}, path : ParallaxPaths, img : {<<>>}, next : {1},
                     phone : {<<>>}, err : {"none"}, out : {<<>>}]

\* layer 0: the gradient background
ParallaxBackground ==
    /\ parallax # <<>>
    /\ parallax.pc = "start"
    /\ parallax' = [parallax EXCEPT
          !.pc = "back",
          !.img = Convert(NewImage("RGB", IPHONE_W, IPHONE_H, "gradient",
                                   <<"#1a1a2e", "#16213e", "#0f3460">>), "RGBA")]
    /\ UNCHANGED <<engineVars, rng, mesh, threads, main, call, runner>>

\* final.paste of the next layer behind the phone
ParallaxPasteBack ==
    /\ parallax # <<>>
    /\ parallax.pc = "back"
    /\ parallax.next <= Len(ParallaxBack)
    /\ parallax' = [parallax EXCEPT
          !.img = Composite(@, ParallaxBack[parallax.next]),
          !.next = @ + 1]
    /\ UNCHANGED <<engineVars, rng, mesh, threads, main, call, runner>>

\* the screenshot is opened (or replaced by the placeholder), scaled and framed
ParallaxLoad ==
    /\ parallax # <<>>
    /\ parallax.pc = "back"
    /\ parallax.next > Len(ParallaxBack)
    /\ LET loaded == ParallaxScreenshot(parallax.path)
       IN  parallax' = IF loaded.err # "none"
                       THEN [parallax EXCEPT !.pc = "raised", !.err = loaded.err]
                       ELSE [parallax EXCEPT !.pc = "front", !.next = 1,
                                !.phone = create_3d_phone_simple(loaded.val, 10)]
    /\ UNCHANGED <<engineVars, rng, mesh, threads, main, call, runner>>

\* final.paste of the next layer from the phone's shadow on
ParallaxPasteFront ==
    /\ parallax # <<>>
    /\ parallax.pc = "front"
    /\ parallax.next <= Len(ParallaxFront(parallax.phone))
    /\ parallax' = [parallax EXCEPT
          !.img = Composite(@, ParallaxFront(parallax.phone)[parallax.next]),
          !.next = @ + 1]
    /\ UNCHANGED <<engineVars, rng, mesh, threads, main, call, runner>>

\* the text and the button are drawn
ParallaxDrawText ==
    /\ parallax # <<>>
    /\ parallax.pc = "front"
    /\ parallax.next > Len(ParallaxFront(parallax.phone))
    /\ parallax' = [parallax EXCEPT !.pc = "text", !.img = ParallaxText(@)]
    /\ UNCHANGED <<engineVars, rng, mesh, threads, main, call, runner>>

\* final.convert('RGB').save(output_path)
ParallaxSave ==
    /\ parallax # <<>>
    /\ parallax.pc = "text"
    /\ parallax' = [parallax EXCEPT !.pc = "done", !.out = Convert(parallax.img, "RGB")]
    /\ UNCHANGED <<engineVars, rng, mesh, threads, main, call, runner>>

InitP ==
    /\ InitParallax
    /\ config = [style |-> Absent, color_scheme |-> Absent, screenshots |-> Present(<<>>)]
    /\ style = EngineStyle(config)
    /\ colors = EngineColors(config)
    /\ pc = "idle"
    /\ idx = 0
    /\ outputs = <<>>
    /\ error = "none"
    /\ rng = 0
    /\ mesh = <<>>
    /\ threads = <<>>
    /\ main = <<>>
    /\ call = <<>>
    /\ runner = <<>>

NextP ==
    \/ ParallaxBackground
    \/ ParallaxPasteBack
    \/ ParallaxLoad
    \/ ParallaxPasteFront
    \/ ParallaxDrawText
    \/ ParallaxSave

SpecParallax == InitP /\ [][NextP]_vars

-----------------------------------------------------------------------------
(* The mesh-gradient generators called again and again in one process *)

\* approach_01_pil_mesh.py create_mesh_gradient with the generator in state s and
\* the optional seed: [err, val, rng]; "if seed:" skips None and 0
create_mesh_gradient(s, width, height, cs, seed) ==
    LET seeded == IF Has(seed) /\ seed[1] # 0 THEN RngSeed(seed[1]) ELSE s
        drawn == DrawOrbs(seeded, NUM_BLOBS, width, height,
                          Min(width, height) \div 2, Max(width, height), Len(cs))
    IN  IF Len(cs) = 0 THEN [err |-> "IndexError", val |-> <<>>, rng |-> seeded]
        ELSE IF hex_to_rgb(cs[1]).err # "none"
             THEN [err |-> "ValueError", val |-> <<>>, rng |-> seeded]
        ELSE [err |-> "none",
              val |-> NewImage("RGB", width, height, "mesh", <<cs[1], drawn.orbs>>),
              rng |-> drawn.rng]

\* the seed create_mesh_background runs with: its parameter defaults to 42
HybridSeed(seed) == Get(seed, 42)

MeshSeeds == {Absent, Present(0), Present(17)}
MeshKeys == {"hybrid", "pil"} \X MeshSeeds
MeshColors == SubSeq(Palette, 2, 4)

\* the generator called by key, in generator state s
MeshCall(key, s) ==
    IF key[1] = "hybrid"
    THEN create_mesh_background(s, IPHONE_W, IPHONE_H, MeshColors, HybridSeed(key[2]))
    ELSE create_mesh_gradient(s, IPHONE_W, IPHONE_H, MeshColors, key[2])

MeshCalls == LET n[k \in MeshKeys] == Len(mesh.calls[k])
             IN  n[<<"hybrid", Absent>>] + n[<<"hybrid", Present(0)>>]
                 + n[<<"hybrid", Present(17)>>] + n[<<"pil", Absent>>]
                 + n[<<"pil", Present(0)>>] + n[<<"pil", Present(17)>>]

InitMesh ==
    /\ rng \in 0..MaxRng
    /\ mesh = [calls |-> [k \in MeshKeys |-> <<>>], draws |-> 0]

\* create_mesh_background(width, height, colors[, seed]) is called
CallMeshBackground ==
    /\ mesh # <<>>
    /\ MeshCalls < MaxCalls
    /\ \E seed \in MeshSeeds :
          LET key == <<"hybrid", seed>>
              r == MeshCall(key, rng)
          IN  /\ Len(mesh.calls[key]) < 2
              /\ rng' = r.rng
              /\ mesh' = [mesh EXCEPT !.calls[key] = Append(@, r.val)]
    /\ UNCHANGED <<engineVars, parallax, threads, main, call, runner>>

\* create_mesh_gradient(width, height, colors[, seed]) is called
CallMeshGradient ==
    /\ mesh # <<>>
    /\ MeshCalls < MaxCalls
    /\ \E seed \in MeshSeeds :
          LET key == <<"pil", seed>>
              r == MeshCall(key, rng)
          IN  /\ Len(mesh.calls[key]) < 2
              /\ rng' = r.rng
              /\ mesh' = [mesh EXCEPT !.calls[key] = Append(@, r.val)]
    /\ UNCHANGED <<engineVars, parallax, threads, main, call, runner>>

\* other code of the process draws from the generator between two calls
OtherDraw ==
    /\ mesh # <<>>
    /\ mesh.draws < MaxDraws
    /\ rng' = RngNext(rng)
    /\ mesh' = [mesh EXCEPT !.draws = @ + 1]
    /\ UNCHANGED <<engineVars, parallax, threads, main, call, runner>>

IdleEngine ==
    /\ config = [style |-> Absent, color_scheme |-> Absent, screenshots |-> Present(<<>>)]
    /\ style = EngineStyle(config)
    /\ colors = EngineColors(config)
    /\ rawDirExists = TRUE
    /\ fileState = "missing"
    /\ pc = "idle"
    /\ idx = 0
    /\ outputs = <<>>
    /\ error = "none"

InitM ==
    /\ InitMesh
    /\ IdleEngine
    /\ parallax = <<>>
    /\ threads = <<>>
    /\ main = <<>>
    /\ call = <<>>
    /\ runner = <<>>

NextM == CallMeshBackground \/ CallMeshGradient \/ OtherDraw

SpecMesh == InitM /\ [][NextM]_vars

-----------------------------------------------------------------------------
(* Two premium renders side by side: each runs create_mesh_background for its *)
(* entry, and the two share the generator of module random                  *)

Threads == {1, 2}

\* _generate_premium passes seed = index * 17; thread t renders entry t - 1
ThreadSeedOf(t) == (t - 1) * 17

InitThreads ==
    /\ rng \in 0..MaxRng
    /\ threads = [t \in Threads |-> [seed |-> ThreadSeedOf(t), pc |-> "seed", orbs |-> <<>>]]
    /\ colors = SubSeq(Palette, 2, 4)

\* random.seed(seed)
ThreadSeed(t) ==
    /\ threads # <<>>
    /\ threads[t].pc = "seed"
    /\ rng' = RngSeed(threads[t].seed)
    /\ threads' = [threads EXCEPT ![t].pc = "orbs"]
    /\ UNCHANGED <<engineVars, parallax, mesh, main, call, runner>>

\* one turn of the orb loop: its four draws
ThreadOrb(t) ==
    /\ threads # <<>>
    /\ threads[t].pc = "orbs"
    /\ LET o == DrawOrb(rng, IPHONE_W, IPHONE_H, 400, 800, Len(colors))
           orbs == Append(threads[t].orbs,
                          [cx |-> o.cx, cy |-> o.cy, radius |-> o.radius, color |-> o.color])
       IN  /\ rng' = o.rng
           /\ threads' = [threads EXCEPT
                 ![t].orbs = orbs,
                 ![t].pc = IF Len(orbs) = NUM_ORBS THEN "done" ELSE "orbs"]
    /\ UNCHANGED <<engineVars, parallax, mesh, main, call, runner>>

InitT ==
    /\ InitThreads
    /\ config = [style |-> Present("premium"), color_scheme |-> Present(SubSeq(Palette, 2, 4)),
                 screenshots |-> Present(<<>>)]
    /\ style = EngineStyle(config)
    /\ rawDirExists = TRUE
    /\ fileState = "missing"
    /\ pc = "idle"
    /\ idx = 0
    /\ outputs = <<>>
    /\ error = "none"
    /\ parallax = <<>>
    /\ mesh = <<>>
    /\ main = <<>>
    /\ call = <<>>
    /\ runner = <<>>

NextT == \E t \in Threads : ThreadSeed(t) \/ ThreadOrb(t)

SpecThreads == InitT /\ [][NextT]_vars

-----------------------------------------------------------------------------
(* approach_10_hybrid.py main: the dicts are objects of a heap, named by strings. *)
(* "config" is the config dict, "shots" the list under its 'screenshots' key    *)
(* (the entry dicts live in that one list) and "style_<s>" a comparison config  *)

MainStyles == <<"premium", "minimal", "storytelling", "authentic">>

MainShotPool ==
    { Shot(Present("9.png"), Present("Test"), Absent, Absent),
      Shot(Absent, Present("Test"), Absent, Absent),
      Shot(Present("1.png"), Absent, Absent, Present("pov")) }

\* the configs main starts from: DEMO_CONFIG or the json.load of a file
MainConfigPool ==
    [style : {Absent, Present("minimal")},
     color_scheme : {Absent, Present(<<Black>>)},
     screenshots : SeqsUpTo(MainShotPool, MaxShots)]

\* the value of the config dict o as an engine reads it through its reference
Deref(heap, o) ==
    [style |-> heap[o].style, color_scheme |-> heap[o].color_scheme,
     screenshots |-> Present(heap[heap[o].screenshots])]

\* an assignment that rebinds the name to the same dict: [heap, ref]
dict_alias(heap, src, fresh) == [heap |-> heap, ref |-> src]

\* dict.copy(): a new dict with the same values, the list under 'screenshots'
\* shared with the original: [heap, ref]
dict_copy(heap, src, fresh) == [heap |-> heap @@ (fresh :> heap[src]), ref |-> fresh]

InitMain ==
    /\ rawDirExists \in BOOLEAN
    /\ fileState \in FileStates
    /\ (~rawDirExists => fileState = "missing")
    /\ \E cfg \in MainConfigPool :
          main = [pc |-> "start",
                  heap |-> ("config" :> [style |-> cfg.style,
                                         color_scheme |-> cfg.color_scheme,
                                         screenshots |-> "shots"])
                           @@ ("shots" :> cfg.screenshots),
                  raw_files |-> <<>>, i |-> 0, k |-> 0, cur |-> "config", used |-> {}]
    /\ config = [style |-> Absent, color_scheme |-> Absent, screenshots |-> Present(<<>>)]
    /\ style = EngineStyle(config)
    /\ colors = EngineColors(config)
    /\ pc = "idle"
    /\ idx = 0
    /\ outputs = <<>>
    /\ error = "none"

\* raw_files = sorted(... os.listdir(raw_dir) ...): FileNotFoundError ends main when
\* the raw directory does not exist
MainListDir ==
    /\ main # <<>>
    /\ main.pc = "start"
    /\ main' = IF ~rawDirExists THEN [main EXCEPT !.pc = "crashed"]
               ELSE [main EXCEPT !.pc = "map",
                        !.raw_files = IF fileState = "missing" THEN <<>> ELSE <<"1.png">>]
    /\ UNCHANGED <<engineVars, rng, parallax, mesh, threads, call, runner>>

\* one turn of "for i, shot in enumerate(config['screenshots'])": an entry that
\* names an image is pointed at a raw file
MainMapShot ==
    /\ main # <<>>
    /\ main.pc = "map"
    /\ main.i < Len(main.heap["shots"])
    /\ LET shot == main.heap["shots"][main.i + 1]
           n == Len(main.raw_files)
       IN  main' = IF n > 0 /\ Has(shot.image)
                   THEN [main EXCEPT !.i = @ + 1,
                            !.heap["shots"][main.i + 1].image =
                                Present(main.raw_files[(main.i % n) + 1])]
                   ELSE [main EXCEPT !.i = @ + 1]
    /\ UNCHANGED <<engineVars, rng, parallax, mesh, threads, call, runner>>

\* ScreenshotEngine(cfg) followed by the call of generate_all
NewEngine(o) ==
    /\ config' = Deref(main.heap, o)
    /\ style' = EngineStyle(Deref(main.heap, o))
    /\ colors' = EngineColors(Deref(main.heap, o))
    /\ pc' = "ready"
    /\ idx' = 0
    /\ outputs' = <<>>
    /\ error' = "none"

\* engine = ScreenshotEngine(config); engine.generate_all(raw_dir, output_dir)
MainFirstEngine ==
    /\ main # <<>>
    /\ main.pc = "map"
    /\ main.i = Len(main.heap["shots"])
    /\ NewEngine("config")
    /\ main' = [main EXCEPT !.pc = "render", !.cur = "config", !.used = {"config"}]
    /\ UNCHANGED <<rawDirExists, fileState, rng, parallax, mesh, threads, call, runner>>

\* style_config = config.copy(), once the engine before has returned
MainCopyConfig ==
    /\ main # <<>>
    /\ main.pc = "render"
    /\ pc = "done"
    /\ main.k < Len(MainStyles)
    /\ LET c == dict_copy(main.heap, "config", "style_" \o MainStyles[main.k + 1])
       IN  main' = [main EXCEPT !.pc = "copied", !.heap = c.heap, !.cur = c.ref]
    /\ UNCHANGED <<engineVars, rng, parallax, mesh, threads, call, runner>>

\* style_config['style'] = style
MainSetStyle ==
    /\ main # <<>>
    /\ main.pc = "copied"
    /\ main' = [main EXCEPT !.pc = "styled",
                    !.heap[main.cur].style = Present(MainStyles[main.k + 1])]
    /\ UNCHANGED <<engineVars, rng, parallax, mesh, threads, call, runner>>

\* engine = ScreenshotEngine(style_config); engine.generate_all(raw_dir, style_output)
MainStyleEngine ==
    /\ main # <<>>
    /\ main.pc = "styled"
    /\ NewEngine(main.cur)
    /\ main' = [main EXCEPT !.pc = "render", !.k = @ + 1, !.used = @ \cup {main.cur}]
    /\ UNCHANGED <<rawDirExists, fileState, rng, parallax, mesh, threads, call, runner>>

\* the loop over the styles is over: main returns
MainEnd ==
    /\ main # <<>>
    /\ main.pc = "render"
    /\ pc = "done"
    /\ main.k = Len(MainStyles)
    /\ main' = [main EXCEPT !.pc = "end"]
    /\ UNCHANGED <<engineVars, rng, parallax, mesh, threads, call, runner>>

InitMn ==
    /\ InitMain
    /\ rng = 0
    /\ parallax = <<>>
    /\ mesh = <<>>
    /\ threads = <<>>
    /\ call = <<>>
    /\ runner = <<>>

NextMain ==
    \/ MainListDir
    \/ MainMapShot
    \/ MainFirstEngine
    \/ Start
    \/ RenderEntry
    \/ Finish
    \/ MainCopyConfig
    \/ MainSetStyle
    \/ MainStyleEngine
    \/ MainEnd

SpecMain == InitMn /\ [][NextMain]_vars

-----------------------------------------------------------------------------
(* The linear gradients, row by row. A ratio is a fraction n / d; the heights and *)
(* colors tried are ones at which the float product truncates as n / d does     *)

\* int(n / d): truncation toward zero
Trunc(n, d) == IF n >= 0 THEN n \div d ELSE -((-n) \div d)

\* max(0, min(1, ratio)) for the ratio n / d: the numerator of the clamped ratio
ClampRatio(n, d) == IF n < 0 THEN 0 ELSE IF n > d THEN d ELSE n

\* interpolate_color with its arguments in the other order
interpolate_color_swapped(c1, c2, tn, td) ==
    [i \in 1..3 |-> Trunc(c2[i] * td + (c1[i] - c2[i]) * tn, td)]

\* approach_01_pil_mesh.py interpolate_color(c1, c2, t) for t = tn / td
interpolate_color(c1, c2, tn, td) ==
    [i \in 1..3 |-> Trunc(c1[i] * td + (c2[i] - c1[i]) * tn, td)]

\* row y of create_gradient_background: ratio = y / height and
\* int(c1[k] + (c2[k] - c1[k]) * ratio) per channel
gradient_row(c1, c2, y, height) ==
    [i \in 1..3 |-> Trunc(c1[i] * height + (c2[i] - c1[i]) * y, height)]

\* row y of create_fast_gradient with variation = 0, so offset = 0; colors is the
\* list of RGB triples and c3 = c2 when the list has two
fast_gradient_row(cs, y, height) ==
    LET half == height \div 2
        c3 == IF Len(cs) > 2 THEN cs[3] ELSE cs[2]
    IN  IF y < half
        THEN interpolate_color(cs[1], cs[2], ClampRatio(y, half), half)
        ELSE interpolate_color(cs[2], c3, ClampRatio(y - half, half), half)

GradColors == {Black, White, <<"#","6","6","7","e","e","a">>}
GradColorLists == UNION { [1..n -> GradColors] : n \in 2..MaxStops }
GradHeights == {2, 4, 8, 100}

\* the RGB triples of a list of valid hex colors
RgbOf(cs) == [k \in 1..Len(cs) |-> hex_to_rgb(cs[k]).val]

InitGradient ==
    call \in [fn : {"create_gradient_background", "create_fast_gradient"},
              colors : GradColorLists, height : GradHeights, y : {0}, rows : {<<>>}]

\* one turn of "for y in range(height)" in create_gradient_background
GradientBackgroundRow ==
    /\ call # <<>>
    /\ call.fn = "create_gradient_background"
    /\ call.y < call.height
    /\ call' = [call EXCEPT
          !.rows = Append(@, gradient_row(RgbOf(call.colors)[1], RgbOf(call.colors)[2],
                                          call.y, call.height)),
          !.y = @ + 1]
    /\ UNCHANGED <<engineVars, rng, parallax, mesh, threads, main, runner>>

\* one turn of "for y in range(height)" in create_fast_gradient
FastGradientRow ==
    /\ call # <<>>
    /\ call.fn = "create_fast_gradient"
    /\ call.y < call.height
    /\ call' = [call EXCEPT
          !.rows = Append(@, fast_gradient_row(RgbOf(call.colors), call.y, call.height)),
          !.y = @ + 1]
    /\ UNCHANGED <<engineVars, rng, parallax, mesh, threads, main, runner>>

\* nothing but the helper call runs
Idle ==
    /\ IdleEngine
    /\ rng = 0
    /\ parallax = <<>>
    /\ mesh = <<>>
    /\ threads = <<>>
    /\ main = <<>>
    /\ runner = <<>>

InitG == InitGradient /\ Idle

NextG == GradientBackgroundRow \/ FastGradientRow

SpecGradient == InitG /\ [][NextG]_vars

-----------------------------------------------------------------------------
(* interpolate_color called with t a multiple of 1/4 between -1 and 2 *)

LerpColors == [1..3 -> {0, 127, 255}]

InitLerp ==
    call \in [c1 : LerpColors, c2 : LerpColors, tn : (0 - 4)..8, td : {4},
              out : {<<>>}, done : {FALSE}]

CallInterpolateColor ==
    /\ call # <<>>
    /\ ~call.done
    /\ call' = [call EXCEPT !.done = TRUE,
                    !.out = interpolate_color(call.c1, call.c2, call.tn, call.td)]
    /\ UNCHANGED <<engineVars, rng, parallax, mesh, threads, main, runner>>

InitL == InitLerp /\ Idle

NextL == CallInterpolateColor

SpecLerp == InitL /\ [][NextL]_vars

-----------------------------------------------------------------------------
(* hex_to_rgb and get_text_color called on their own *)

HexAlphabet == {"#", "1", "F", "g"}
HexStrings == SeqsUpTo(HexAlphabet, MaxHexLen)

InitHex == call \in [s : HexStrings, out : {<<>>}, done : {FALSE}]

CallHexToRgb ==
    /\ call # <<>>
    /\ ~call.done
    /\ call' = [call EXCEPT !.done = TRUE, !.out = hex_to_rgb(call.s)]
    /\ UNCHANGED <<engineVars, rng, parallax, mesh, threads, main, runner>>

InitH == InitHex /\ Idle

NextH == CallHexToRgb

SpecHex == InitH /\ [][NextH]_vars

ContrastPool == [1..3 -> {0, 68, 127, 128, 204, 255}]

InitContrast == call \in [bg : ContrastPool, out : {<<>>}, done : {FALSE}]

CallGetTextColor ==
    /\ call # <<>>
    /\ ~call.done
    /\ call' = [call EXCEPT !.done = TRUE, !.out = get_text_color(call.bg)]
    /\ UNCHANGED <<engineVars, rng, parallax, mesh, threads, main, runner>>

InitC == InitContrast /\ Idle

NextC == CallGetTextColor

SpecContrast == InitC /\ [][NextC]_vars

-----------------------------------------------------------------------------
(* fit_text called on its own *)

FitTexts == {"", "Test", "0123456789", "Build Habits That Stick"}
FitStarts == {100, 90, 23, 15}
FitWidths == {0, 100, 200, 230, 250, 300, 500, 1130, 2000}

InitFit ==
    call \in [text : FitTexts, start : FitStarts, max_width : FitWidths,
              out : {0}, done : {FALSE}]

CallFitText ==
    /\ call # <<>>
    /\ ~call.done
    /\ call' = [call EXCEPT !.done = TRUE,
                    !.out = fit_text(call.text, call.start, call.max_width)]
    /\ UNCHANGED <<engineVars, rng, parallax, mesh, threads, main, runner>>

InitF == InitFit /\ Idle

NextF == CallFitText

SpecFit == InitF /\ [][NextF]_vars

-----------------------------------------------------------------------------
(* Drop shadows: approach_10_hybrid.create_shadow and approach 1's            *)
(* create_shadow, called on their own                                         *)

\* approach_01_pil_mesh.create_shadow: the buffer IS the size handed in, the
\* filled rectangle is inset by twice the blur radius on every side
create_shadow_pil(size, blur_radius, opacity) ==
    LET margin == blur_radius * 2
    IN  [w |-> size[1], h |-> size[2],
         rect |-> <<margin, margin, size[1] - margin, size[2] - margin>>,
         blur |-> blur_radius, opacity |-> opacity]

ShadowSubjects == {<<100, 200>>, <<715, 1537>>, <<838, 1817>>}
ShadowBlurs == {0, 10, 20, 25, 40}
ShadowOffsets == {<<0, 15>>, <<0, 0>>, <<10, -10>>}

InitShadow ==
    \E fn \in {"hybrid", "pil_mesh"}, size \in ShadowSubjects,
       blur \in ShadowBlurs, offset \in ShadowOffsets :
        call = [fn |-> fn, size |-> size, blur |-> blur, offset |-> offset,
                out |-> <<>>, done |-> FALSE]

\* shadow = create_shadow(screenshot, blur=..., offset=...)
CallCreateShadow ==
    /\ call # <<>>
    /\ ~call.done
    /\ call.fn = "hybrid"
    /\ call' = [call EXCEPT
                  !.out = create_shadow([w |-> call.size[1], h |-> call.size[2]],
                                        call.blur, 80, call.offset),
                  !.done = TRUE]
    /\ UNCHANGED <<engineVars, rng, parallax, mesh, threads, main, runner>>

\* shadow = create_shadow(shadow_size, SHADOW_BLUR, opacity=80) of approach 1
CallCreateShadowPil ==
    /\ call # <<>>
    /\ ~call.done
    /\ call.fn = "pil_mesh"
    /\ call' = [call EXCEPT
                  !.out = create_shadow_pil(call.size, call.blur, 80),
                  !.done = TRUE]
    /\ UNCHANGED <<engineVars, rng, parallax, mesh, threads, main, runner>>

InitS == InitShadow /\ Idle

NextS == CallCreateShadow \/ CallCreateShadowPil

SpecShadow == InitS /\ [][NextS]_vars

-----------------------------------------------------------------------------
(* approach_3d_parallax.create_glow, called on its own                        *)

\* alpha = int(255 * intensity * (r / max_radius) ** 2), the intensity in
\* hundredths
GlowAlpha(intensity, r, max_radius) ==
    (255 * intensity * r * r) \div (100 * max_radius * max_radius)

\* for r in range(max_radius, 0, -5): draw.ellipse(..., fill=(*rgb, alpha)).
\* Drawing on the RGBA buffer replaces the pixels of the disc of radius r, so
\* every ring overwrites what the larger rings left inside it. profile maps a
\* distance from the centre to the alpha of the pixels at that distance.
RECURSIVE GlowRings(_, _, _, _)
GlowRings(profile, r, max_radius, intensity) ==
    IF r <= 0 THEN profile
    ELSE GlowRings([d \in DOMAIN profile |->
                       IF d <= r THEN GlowAlpha(intensity, r, max_radius)
                       ELSE profile[d]],
                   r - 5, max_radius, intensity)

\* create_glow(size, color, intensity) before its GaussianBlur
create_glow(size, intensity) ==
    LET max_radius == Min(size[1], size[2]) \div 2
    IN  [w |-> size[1], h |-> size[2], max_radius |-> max_radius,
         alpha |-> GlowRings([d \in 0..max_radius |-> 0], max_radius,
                             max_radius, intensity)]

GlowSizes == {<<20, 20>>, <<50, 30>>, <<100, 100>>, <<160, 120>>, <<200, 200>>,
              <<240, 300>>}
GlowIntensities == {0, 15, 20, 25, 30, 40, 50, 75, 100}

InitGlow ==
    \E size \in GlowSizes, intensity \in GlowIntensities :
        call = [fn |-> "create_glow", size |-> size, intensity |-> intensity,
                out |-> <<>>, done |-> FALSE]

CallCreateGlow ==
    /\ call # <<>>
    /\ ~call.done
    /\ call' = [call EXCEPT !.out = create_glow(call.size, call.intensity),
                            !.done = TRUE]
    /\ UNCHANGED <<engineVars, rng, parallax, mesh, threads, main, runner>>

InitGl == InitGlow /\ Idle

NextGl == CallCreateGlow

SpecGlow == InitGl /\ [][NextGl]_vars

-----------------------------------------------------------------------------
(* The device frames of approach_3d_parallax.py, called on their own          *)

\* create_3d_phone_simple before its transform: the bezel of phone_padding = 25
\* around the screenshot and the 160 x 45 dynamic island, as rectangles
\* <<x0, y0, x1, y1>> of the frame
phone_simple_frame(screenshot) ==
    LET phone_padding == 25
        phone_width == screenshot.w + phone_padding * 2
        phone_height == screenshot.h + phone_padding * 2
        island_x == FloorDiv(phone_width - 160, 2)
    IN  [w |-> phone_width, h |-> phone_height,
         screen |-> <<phone_padding, phone_padding,
                      phone_padding + screenshot.w, phone_padding + screenshot.h>>,
         notch |-> <<island_x, phone_padding + 20,
                     island_x + 160, phone_padding + 20 + 45>>]

\* create_3d_phone_frame before its transform: phone_padding = 20 and the
\* 180 x 50 notch
phone_frame_frame(screenshot) ==
    LET phone_padding == 20
        phone_width == screenshot.w + phone_padding * 2
        phone_height == screenshot.h + phone_padding * 2
        notch_x == FloorDiv(phone_width - 180, 2)
        notch_y == phone_padding + 15
    IN  [w |-> phone_width, h |-> phone_height,
         screen |-> <<phone_padding, phone_padding,
                      phone_width - phone_padding, phone_height - phone_padding>>,
         notch |-> <<notch_x, notch_y, notch_x + 180, notch_y + 50>>]

\* create_3d_phone_frame: the perspective transform keeps the frame's size
create_3d_phone_frame(screenshot) ==
    [w |-> screenshot.w + 20 * 2, h |-> screenshot.h + 20 * 2, src |-> screenshot.src]

\* the resize of create_3d_parallax_screenshot: target_height =
\* int(height * 0.55), target_width = int(screenshot.width * scale)
parallax_resize(screenshot) ==
    LET target_height == HeightAt(550)
    IN  [w |-> (screenshot.w * target_height) \div screenshot.h,
         h |-> target_height, src |-> screenshot.src]

PhoneInputs == {<<1179, 2556>>, <<1290, 2796>>, <<390, 844>>, <<1000, 500>>,
                <<100, 1000>>, <<300, 3000>>, <<120, 1537>>, <<2796, 1290>>}
PhoneTilts == {0, 5, 10, 12}

InitPhone ==
    \E fn \in {"pipeline", "create_3d_phone_simple", "create_3d_phone_frame"},
       size \in PhoneInputs, tilt \in PhoneTilts :
        call = [fn |-> fn,
                screenshot |-> [w |-> size[1], h |-> size[2], src |-> "1.png"],
                tilt |-> tilt, out |-> <<>>, done |-> FALSE]

\* create_3d_parallax_screenshot, lines 438-445: resize, then
\* phone = create_3d_phone_simple(screenshot, tilt=10)
CallPipelinePhone ==
    /\ call # <<>>
    /\ ~call.done
    /\ call.fn = "pipeline"
    /\ LET screenshot == parallax_resize(call.screenshot)
       IN  call' = [call EXCEPT
                      !.out = [screenshot |-> screenshot,
                               frame |-> phone_simple_frame(screenshot),
                               phone |-> create_3d_phone_simple(screenshot, 10)],
                      !.done = TRUE]
    /\ UNCHANGED <<engineVars, rng, parallax, mesh, threads, main, runner>>

CallPhoneSimple ==
    /\ call # <<>>
    /\ ~call.done
    /\ call.fn = "create_3d_phone_simple"
    /\ call' = [call EXCEPT
                  !.out = [screenshot |-> call.screenshot,
                           frame |-> phone_simple_frame(call.screenshot),
                           phone |-> create_3d_phone_simple(call.screenshot, call.tilt)],
                  !.done = TRUE]
    /\ UNCHANGED <<engineVars, rng, parallax, mesh, threads, main, runner>>

CallPhoneFrame ==
    /\ call # <<>>
    /\ ~call.done
    /\ call.fn = "create_3d_phone_frame"
    /\ call' = [call EXCEPT
                  !.out = [screenshot |-> call.screenshot,
                           frame |-> phone_frame_frame(call.screenshot),
                           phone |-> create_3d_phone_frame(call.screenshot)],
                  !.done = TRUE]
    /\ UNCHANGED <<engineVars, rng, parallax, mesh, threads, main, runner>>

InitPh == InitPhone /\ Idle

NextPh == CallPipelinePhone \/ CallPhoneSimple \/ CallPhoneFrame

SpecPhone == InitPh /\ [][NextPh]_vars

-----------------------------------------------------------------------------
(* run_all.py: the master script that runs the approach scripts               *)

\* APPROACHES: the number of each approach and its "auto" flag
APPROACHES ==
    <<[num |-> 1, auto |-> TRUE], [num |-> 2, auto |-> TRUE],
      [num |-> 3, auto |-> FALSE], [num |-> 4, auto |-> FALSE],
      [num |-> 5, auto |-> TRUE], [num |-> 6, auto |-> FALSE],
      [num |-> 7, auto |-> TRUE], [num |-> 8, auto |-> TRUE],
      [num |-> 9, auto |-> FALSE], [num |-> 10, auto |-> TRUE]>>

ImageSuffixes == {"png", "jpg", "jpeg"}

\* check_raw_screenshots(): the files of RAW_DIR with an image suffix, none
\* when the directory does not exist
check_raw_screenshots(raw_dir_exists, listing) ==
    IF ~raw_dir_exists THEN {}
    ELSE {f \in listing : f.suffix \in ImageSuffixes}

\* run_approach(approach): False when the script is missing, otherwise the
\* script runs as a subprocess and the result is returncode == 0
run_approach(approach, scripts, returncode) ==
    IF approach.num \notin scripts
    THEN [spawned |-> FALSE, success |-> FALSE]
    ELSE [spawned |-> TRUE, success |-> (returncode = 0)]

\* the same turn of the loop that gives up at the first failed approach
run_all_turn_stop_on_failure(r, approach, returncode) ==
    IF approach.auto
    THEN LET ran == run_approach(approach, r.scripts, returncode)
         IN  [r EXCEPT !.called = Append(@, approach.num),
                       !.spawned = IF ran.spawned THEN Append(@, approach.num) ELSE @,
                       !.results = Append(@, <<approach.num, ran.success>>),
                       !.i = IF ran.success THEN @ + 1 ELSE Len(APPROACHES) + 1]
    ELSE [r EXCEPT !.i = @ + 1]

\* one turn of "for approach in APPROACHES": an auto approach is run and its
\* result appended, any other approach is passed over
run_all_turn(r, approach, returncode) ==
    IF approach.auto
    THEN LET ran == run_approach(approach, r.scripts, returncode)
         IN  [r EXCEPT !.called = Append(@, approach.num),
                       !.spawned = IF ran.spawned THEN Append(@, approach.num) ELSE @,
                       !.results = Append(@, <<approach.num, ran.success>>),
                       !.i = @ + 1]
    ELSE [r EXCEPT !.i = @ + 1]

AllScripts == {APPROACHES[k].num : k \in 1..Len(APPROACHES)}
ScriptSets == {AllScripts, AllScripts \ {2}, AllScripts \ {1, 7}, AllScripts \ {10}}
RawListings ==
    {{}, {[name |-> "notes", suffix |-> "txt"]},
     {[name |-> "1", suffix |-> "png"]},
     {[name |-> "2", suffix |-> "jpg"], [name |-> "1", suffix |-> "png"],
      [name |-> "notes", suffix |-> "txt"]}}
RunAllArgs ==
    {[mode |-> "default", num |-> 0], [mode |-> "list", num |-> 0],
     [mode |-> "approach", num |-> 1], [mode |-> "approach", num |-> 3],
     [mode |-> "approach", num |-> 11]}
ReturnCodes == {0, 1}

InitRunAll ==
    \E args \in RunAllArgs, raw_dir_exists \in BOOLEAN, listing \in RawListings,
       scripts \in ScriptSets, output_dir_exists \in BOOLEAN :
        runner = [pc |-> "main", args |-> args, raw_dir_exists |-> raw_dir_exists,
                  listing |-> listing, scripts |-> scripts,
                  output_dir_exists |-> output_dir_exists,
                  raw_files |-> {}, i |-> 1, called |-> <<>>, spawned |-> <<>>,
                  results |-> <<>>, summary |-> <<>>, err |-> "none"]

\* main() up to its loop: --list and --approach return on their own, the
\* default mode returns when no raw screenshot is found
RunAllMain ==
    /\ runner # <<>>
    /\ runner.pc = "main"
    /\ \/ /\ runner.args.mode = "list"
          /\ runner' = [runner EXCEPT !.pc = "done"]
       \/ /\ runner.args.mode = "approach"
          /\ LET found == {k \in 1..Len(APPROACHES) :
                              APPROACHES[k].num = runner.args.num}
             IN  IF found = {}
                 THEN runner' = [runner EXCEPT !.pc = "done"]
                 ELSE \E k \in found, returncode \in ReturnCodes :
                        LET ran == run_approach(APPROACHES[k], runner.scripts, returncode)
                        IN  runner' = [runner EXCEPT
                                !.called = Append(@, APPROACHES[k].num),
                                !.spawned = IF ran.spawned
                                            THEN Append(@, APPROACHES[k].num) ELSE @,
                                !.pc = "done"]
       \/ /\ runner.args.mode = "default"
          /\ LET raw_files == check_raw_screenshots(runner.raw_dir_exists, runner.listing)
             IN  runner' = [runner EXCEPT
                              !.raw_files = raw_files,
                              !.pc = IF raw_files = {} THEN "done" ELSE "loop"]
    /\ UNCHANGED <<engineVars, rng, parallax, mesh, threads, main, call>>

\* for approach in APPROACHES: ...
RunAllTurn ==
    /\ runner # <<>>
    /\ runner.pc = "loop"
    /\ runner.i <= Len(APPROACHES)
    /\ \E returncode \in ReturnCodes :
          runner' = run_all_turn(runner, APPROACHES[runner.i], returncode)
    /\ UNCHANGED <<engineVars, rng, parallax, mesh, threads, main, call>>

\* the summary, one line per result, then the listing of the output folder,
\* which raises when the folder does not exist
RunAllSummary ==
    /\ runner # <<>>
    /\ runner.pc = "loop"
    /\ runner.i > Len(APPROACHES)
    /\ runner' = [runner EXCEPT
                    !.summary = runner.results,
                    !.err = IF runner.output_dir_exists THEN "none"
                            ELSE "FileNotFoundError",
                    !.pc = "done"]
    /\ UNCHANGED <<engineVars, rng, parallax, mesh, threads, main, call>>

InitR ==
    /\ InitRunAll
    /\ IdleEngine
    /\ rng = 0
    /\ parallax = <<>>
    /\ mesh = <<>>
    /\ threads = <<>>
    /\ main = <<>>
    /\ call = <<>>

NextR == RunAllMain \/ RunAllTurn \/ RunAllSummary

SpecRunAll == InitR /\ [][NextR]_vars

-----------------------------------------------------------------------------
(* The progress bars of the storytelling recipe and of approach 8, drawn on   *)
(* their own                                                                  *)

\* approach_08_storytelling.create_progress_bar: segment i spans
\* margin + i * segment_width + gap/2 .. margin + (i + 1) * segment_width - gap/2
\* with margin = 80 and gap = 10, and is highlighted when i < current_step. As
\* in ProgressBar the two abscissas are kept multiplied by total_steps.
create_progress_bar(img, first, current_step, total_steps, width) ==
    [img EXCEPT !.layers = @ \o
        [k \in 1..(total_steps - first) |->
            LET i == first + k - 1
            IN  Layer("progress", 0, 120, 0, 8, "", "segment",
                      <<i, total_steps,
                        85 * total_steps + i * (width - 80 * 2),
                        75 * total_steps + (i + 1) * (width - 80 * 2),
                        i < current_step>>)]]

\* a canvas with nothing drawn on it yet
BlankCanvas == [w |-> IPHONE_W, h |-> IPHONE_H, mode |-> "RGBA", layers |-> <<>>]

ProgressTotals == {1, 2, 3, 5, 10, 113, 114, 226, 227}
ProgressIndexes == {0, 1, 2, 4, 9, 226}

InitProgress ==
    \E fn \in {"storytelling", "approach_08"}, total \in ProgressTotals,
       index \in ProgressIndexes :
        /\ index < total
        /\ call = [fn |-> fn, index |-> index, total |-> total,
                   out |-> <<>>, done |-> FALSE]

\* the progress bar loop of _generate_storytelling for entry index of total
CallProgressBar ==
    /\ call # <<>>
    /\ ~call.done
    /\ call.fn = "storytelling"
    /\ call' = [call EXCEPT
                  !.out = ProgressBar(BlankCanvas, 0,
                                      call.total, call.index).layers,
                  !.done = TRUE]
    /\ UNCHANGED <<engineVars, rng, parallax, mesh, threads, main, runner>>

\* create_progress_bar(draw, step_index + 1, total, 120, width, colors)
CallCreateProgressBar ==
    /\ call # <<>>
    /\ ~call.done
    /\ call.fn = "approach_08"
    /\ call' = [call EXCEPT
                  !.out = create_progress_bar(BlankCanvas, 0,
                                              call.index + 1, call.total,
                                              IPHONE_W).layers,
                  !.done = TRUE]
    /\ UNCHANGED <<engineVars, rng, parallax, mesh, threads, main, runner>>

InitPb == InitProgress /\ Idle

NextPb == CallProgressBar \/ CallCreateProgressBar

SpecProgress == InitPb /\ [][NextPb]_vars

-----------------------------------------------------------------------------
(* ScreenshotEngine._generate_authentic, called on its own                    *)

AuthenticFormats ==
    {Absent} \cup { Present(f) : f \in {"imessage", "notes", "twitter", "pov", "gif", ""} }
AuthenticShots ==
    { Shot(image, Present("Test"), Absent, format) :
        image \in {Absent, Present("1.png")}, format \in AuthenticFormats }
AuthenticIndexes == 0..7

InitAuthentic ==
    \E shot \in AuthenticShots, index \in AuthenticIndexes :
        call = [fn |-> "generate_authentic", shot |-> shot, index |-> index,
                out |-> <<>>, done |-> FALSE]

\* self._generate_authentic(raw_path, shot, output_path, index)
CallGenerateAuthentic ==
    /\ call # <<>>
    /\ ~call.done
    /\ call' = [call EXCEPT
                  !.out = generate_authentic(rng, raw_path(call.shot), call.shot, call.index),
                  !.done = TRUE]
    /\ UNCHANGED <<engineVars, rng, parallax, mesh, threads, main, runner>>

InitAu ==
    /\ InitAuthentic
    /\ config = [style |-> Present("authentic"), color_scheme |-> Absent,
                 screenshots |-> Present(<<>>)]
    /\ style = EngineStyle(config)
    /\ colors = EngineColors(config)
    /\ rawDirExists = TRUE
    /\ fileState \in FileStates
    /\ pc = "idle"
    /\ idx = 0
    /\ outputs = <<>>
    /\ error = "none"
    /\ rng = 0
    /\ parallax = <<>>
    /\ mesh = <<>>
    /\ threads = <<>>
    /\ main = <<>>
    /\ runner = <<>>

NextAu == CallGenerateAuthentic

SpecAuthentic == InitAu /\ [][NextAu]_vars

-----------------------------------------------------------------------------
(* approach_05_ugly_ads.wrap_text, called on its own. A text is a sequence of *)
(* characters, a word and a line are too.                                     *)

\* text.split(): the maximal runs of non-blank characters, in order
RECURSIVE SplitFrom(_, _, _, _)
SplitFrom(text, k, word, words) ==
    IF k > Len(text)
    THEN IF word = <<>> THEN words ELSE Append(words, word)
    ELSE IF text[k] = " "
         THEN SplitFrom(text, k + 1, <<>>, IF word = <<>> THEN words ELSE Append(words, word))
         ELSE SplitFrom(text, k + 1, Append(word, text[k]), words)

split(text) == SplitFrom(text, 1, <<>>, <<>>)

\* ' '.join(words)
RECURSIVE join(_)
join(words) ==
    IF Len(words) = 0 THEN <<>>
    ELSE IF Len(words) = 1 THEN words[1]
    ELSE words[1] \o <<" ">> \o join(Tail(words))

\* the loop of a wrap_text that starts a new, empty line at a word that does
\* not fit
RECURSIVE WrapWordsDropping(_, _, _, _, _, _)
WrapWordsDropping(words, k, current_line, lines, size, max_width) ==
    IF k > Len(words)
    THEN IF current_line # <<>> THEN Append(lines, join(current_line)) ELSE lines
    ELSE LET word == words[k]
             test_line == join(Append(current_line, word))
         IN  IF TextWidth(test_line, size) <= max_width
             THEN WrapWordsDropping(words, k + 1, Append(current_line, word), lines,
                                    size, max_width)
             ELSE WrapWordsDropping(words, k + 1, <<>>,
                                    IF current_line # <<>>
                                    THEN Append(lines, join(current_line)) ELSE lines,
                                    size, max_width)

\* the loop of wrap_text from word k on: current_line holds the words of the
\* line being filled, lines the lines already closed
RECURSIVE WrapWords(_, _, _, _, _, _)
WrapWords(words, k, current_line, lines, size, max_width) ==
    IF k > Len(words)
    THEN IF current_line # <<>> THEN Append(lines, join(current_line)) ELSE lines
    ELSE LET word == words[k]
             test_line == join(Append(current_line, word))
         IN  IF TextWidth(test_line, size) <= max_width
             THEN WrapWords(words, k + 1, Append(current_line, word), lines,
                            size, max_width)
             ELSE WrapWords(words, k + 1, <<word>>,
                            IF current_line # <<>>
                            THEN Append(lines, join(current_line)) ELSE lines,
                            size, max_width)

\* wrap_text(text, font, max_width, draw) with a font of the given size
wrap_text(text, size, max_width) ==
    WrapWords(split(text), 1, <<>>, <<>>, size, max_width)

WrapChars == {"a", "b", " "}
WrapTexts == UNION { [1..n -> WrapChars] : n \in 0..MaxTextLen }
WrapWidths == {0, 11, 22, 33, 55, 1000}

InitWrap ==
    \E text \in WrapTexts, max_width \in WrapWidths :
        call = [fn |-> "wrap_text", text |-> text, size |-> 20,
                max_width |-> max_width, out |-> <<>>, done |-> FALSE]

\* lines = wrap_text(text, font, max_width, draw)
CallWrapText ==
    /\ call # <<>>
    /\ ~call.done
    /\ call' = [call EXCEPT !.out = wrap_text(call.text, call.size, call.max_width),
                            !.done = TRUE]
    /\ UNCHANGED <<engineVars, rng, parallax, mesh, threads, main, runner>>

InitW == InitWrap /\ Idle

NextW == CallWrapText

SpecWrap == InitW /\ [][NextW]_vars

-----------------------------------------------------------------------------
(* Properties *)

Shots == Get(config.screenshots, <<>>)
ShotAt(i) == Shots[i + 1]
Written(i) == OutputName(i) \in DOMAIN outputs
HasLayer(img, kind) == \E k \in 1..Len(img.layers) : img.layers[k].kind = kind
KnownStyles == {"premium", "authentic", "minimal", "storytelling"}

\* C1: once generate_all has returned over N entries, exactly N files are written,
\* entry i to "<i+1>_6.5_inch.png", no two entries to one file, and every file is
\* the render of its entry, 1290 x 2796 and in opaque RGB mode
C1_OneOpaqueImagePerEntry ==
    pc = "done" =>
        LET N == Len(Shots)
        IN  /\ DOMAIN outputs = { OutputName(i) : i \in 0..(N - 1) }
            /\ Cardinality(DOMAIN outputs) = N
            /\ \A i \in 0..(N - 1) :
                  LET img == outputs[OutputName(i)]
                  IN  /\ img = Render(0, ShotAt(i), i).img
                      /\ img.w = 1290
                      /\ img.h = 2796
                      /\ img.mode = "RGB"

\* two entries were written from a decodable landscape input
C1_Witness ==
    /\ pc = "done"
    /\ Len(Shots) = 2
    /\ fileState = "landscape"
    /\ \A i \in 0..1 :
          /\ Written(i)
          /\ \E k \in 1..Len(outputs[OutputName(i)].layers) :
                /\ outputs[OutputName(i)].layers[k].kind = "screenshot"
                /\ outputs[OutputName(i)].layers[k].src = "file"

HasPlaceholder(img) ==
    \/ \E k \in 1..Len(img.layers) :
          img.layers[k].kind = "screenshot" /\ img.layers[k].src = "placeholder"
    \/ img.layers[1].src = "flat" /\ img.layers[1].data = <<20, 20, 20>>

\* C3: every entry rendered while its input file does not exist was written with
\* the flat dark placeholder composited in the screenshot's place
C3_MissingInputGetsPlaceholder ==
    \A i \in 0..(idx - 1) :
        ~PathExists(raw_path(ShotAt(i))) =>
            Written(i) /\ HasPlaceholder(outputs[OutputName(i)])

\* C4: with style minimal, color scheme ['#000000'] and the one entry
\* {headline: 'Test'}, generate_all does not raise and writes a 1290 x 2796 RGB
\* image holding the placeholder and the headline 'Test' with its left edge at
\* floor((1290 - text width) / 2), whether or not the raw directory exists
C4_MinimalNoImageRendersPlaceholder ==
    ( /\ config.style = Present("minimal")
      /\ config.color_scheme = Present(<<Black>>)
      /\ Shots = <<Shot(Absent, Present("Test"), Absent, Absent)>> ) =>
        /\ pc # "raised"
        /\ pc = "done" =>
              /\ Written(0)
              /\ LET img == outputs[OutputName(0)]
                 IN  /\ img.w = 1290 /\ img.h = 2796 /\ img.mode = "RGB"
                     /\ HasPlaceholder(img)
                     /\ \E k \in 1..Len(img.layers) :
                           /\ img.layers[k].kind = "headline"
                           /\ img.layers[k].text = "Test"
                           /\ img.layers[k].x
                                 = (1290 - TextWidth("Test", WidthAt(70))) \div 2

\* C5: once generate_all has ended, by returning or by raising, every entry whose
\* own render succeeds has its output file
C5_FailureDoesNotAbortRest ==
    pc \in {"done", "raised"} =>
        \A j \in 0..(Len(Shots) - 1) :
            Render(0, ShotAt(j), j).err = "none" => Written(j)

\* C6: the color schemes tried hold valid hex colors only, so generate_all raises
\* for no reason but an input that exists and cannot be opened
C6_ColorSchemeNeverRaises ==
    pc = "raised" => error \in {"IsADirectoryError", "UnidentifiedImageError"}

\* the stage a layer belongs to in the order background, subject, decorations, text
Stage(kind) ==
    CASE kind = "background" -> 1
      [] kind = "screenshot" -> 2
      [] kind \in {"glow", "shadow", "progress", "step_circle", "step_text"} -> 3
      [] kind \in {"headline", "subtitle"} -> 4
      [] OTHER -> 0

\* the order the recipes paste in: what lies behind the subject, the subject, the
\* headline and subtitle, and storytelling's step indicator last
PasteRank(kind) ==
    CASE kind = "background" -> 1
      [] kind \in {"glow", "shadow", "progress"} -> 2
      [] kind = "screenshot" -> 3
      [] kind \in {"headline", "subtitle"} -> 4
      [] kind \in {"step_circle", "step_text"} -> 5
      [] OTHER -> 0

\* C7 as stated: in every written image the subject is composited before any glow,
\* shadow, progress bar or step indicator, and each of those before any text
C7_SubjectThenDecorationsThenText ==
    \A i \in 0..(idx - 1) :
        LET ls == outputs[OutputName(i)].layers
        IN  \A j, k \in 1..Len(ls) :
                (j < k /\ Stage(ls[j].kind) > 0 /\ Stage(ls[k].kind) > 0) =>
                    Stage(ls[j].kind) <= Stage(ls[k].kind)

\* C7: in every written image the background is the first layer, glow, shadow and
\* progress bar are pasted before the subject, the subject before the headline and
\* subtitle, the step indicator after them, and the saved image is flattened to RGB
C7_BackdropSubjectTextOrder ==
    \A i \in 0..(idx - 1) :
        LET img == outputs[OutputName(i)]
            ls == img.layers
        IN  /\ ls[1].kind = "background"
            /\ img.mode = "RGB"
            /\ \A j, k \in 1..Len(ls) :
                  (j < k /\ PasteRank(ls[j].kind) > 0 /\ PasteRank(ls[k].kind) > 0) =>
                      PasteRank(ls[j].kind) <= PasteRank(ls[k].kind)

\* a premium, a minimal or a storytelling entry was written with its shadow or
\* progress bar, its subject and its headline
C7_Witness ==
    /\ idx >= 1
    /\ Recipe(style) \in {"minimal", "storytelling"}
    /\ LET img == outputs[OutputName(0)]
       IN  /\ HasLayer(img, "shadow") \/ HasLayer(img, "step_circle")
           /\ HasLayer(img, "screenshot")
           /\ HasLayer(img, "headline")

\* the z-order group of a parallax decoration layer
ZGroup(kind) ==
    CASE kind = "back_glow" -> 1
      [] kind = "back_icon" -> 2
      [] kind \in {"phone_shadow", "phone", "phone_glow"} -> 3
      [] kind \in {"card_shadow", "card"} -> 4
      [] kind = "badge" -> 5
      [] kind = "front_icon" -> 6
      [] OTHER -> 0

\* C8: at every point of create_3d_parallax_screenshot the decoration layers pasted
\* so far lie in the group order back glows, back icons, phone with shadow and
\* glow, stat cards, badges, front icons
C8_ParallaxZOrder ==
    parallax.pc # "start" =>
        LET ls == parallax.img.layers
        IN  \A j, k \in 1..Len(ls) :
                (j < k /\ ZGroup(ls[j].kind) > 0 /\ ZGroup(ls[k].kind) > 0) =>
                    ZGroup(ls[j].kind) <= ZGroup(ls[k].kind)

\* the parallax image was saved with layers of all six groups in it
C8_Witness ==
    /\ parallax.pc = "done"
    /\ \A g \in 1..6 :
          \E k \in 1..Len(parallax.out.layers) : ZGroup(parallax.out.layers[k].kind) = g

\* C9: two calls of one generator with the same width, height, colors and seed
\* return the same image, whatever was drawn from the generator in between
C9_MeshGeneratorsDeterministic ==
    \A key \in MeshKeys :
        Len(mesh.calls[key]) = 2 => mesh.calls[key][1] = mesh.calls[key][2]

\* C10: a premium render that has drawn its orbs side by side with another has the
\* orbs it draws when it runs alone from its own seed
C10_InterleavedRendersKeepTheirBlobs ==
    \A t \in Threads :
        threads[t].pc = "done" =>
            threads[t].orbs = DrawOrbs(RngSeed(threads[t].seed), NUM_ORBS, IPHONE_W,
                                        IPHONE_H, 400, 800, Len(colors)).orbs

\* C11: once main has handed a config to its first engine, no step changes a dict
\* an engine has been given or the list and entries under its 'screenshots' key,
\* and while generate_all runs the engine reads that same unchanged config
C11_ConfigReadOnlyOnceRendering ==
    [][ main.used # {} =>
          /\ \A o \in main.used \cup {"shots"} : main'.heap[o] = main.heap[o]
          /\ (pc \in {"ready", "loop"} =>
                 config' = config /\ config = Deref(main.heap, main.cur)) ]_vars

\* main returned after five engines, the comparison ones on dicts of their own, and
\* the entry's image had been pointed at a raw file before the first render
C11_Witness ==
    /\ main.pc = "end"
    /\ main.used = {"config"} \cup { "style_" \o MainStyles[k] : k \in 1..4 }
    /\ main.heap["config"].style = Absent
    /\ main.heap["style_minimal"].style = Present("minimal")
    /\ main.heap["shots"] = <<Shot(Present("1.png"), Present("Test"), Absent, Absent)>>

\* C12: a written entry that has no 'headline' field carries no headline text
C12_NoHeadlineNoHeadlineText ==
    \A i \in 0..(idx - 1) :
        ~Has(ShotAt(i).headline) =>
            \A k \in 1..Len(outputs[OutputName(i)].layers) :
                outputs[OutputName(i)].layers[k].kind = "headline" =>
                    outputs[OutputName(i)].layers[k].text = ""

\* C13: the gradient from #000000 to #FFFFFF rendered at height 100 by
\* create_gradient_background has row 0 black and row 99 (254, 254, 254) or
\* (255, 255, 255)
C13_GradientEndRows ==
    ( /\ call.fn = "create_gradient_background"
      /\ call.colors = <<Black, White>>
      /\ call.height = 100
      /\ Len(call.rows) = 100 ) =>
        /\ call.rows[1] = <<0, 0, 0>>
        /\ call.rows[100] \in {<<254, 254, 254>>, <<255, 255, 255>>}

\* C14: in a finished gradient of n colors over a height that n - 1 divides, the
\* row at stop k (k < n), which is row (k - 1) * height / (n - 1), has color k
C14_EveryStopAppears ==
    LET n == Len(call.colors)
    IN  (Len(call.rows) = call.height /\ call.height % (n - 1) = 0) =>
            \A k \in 1..(n - 1) :
                call.rows[((k - 1) * call.height) \div (n - 1) + 1] = RgbOf(call.colors)[k]

\* C15: every channel interpolate_color returns lies in 0..255 and is within one
\* half of c1 + (c2 - c1) * clamp(t, 0, 1), that is, that value rounded to nearest
C15_InterpolationClampsAndRounds ==
    call.done =>
        \A i \in 1..3 :
            LET exact == call.c1[i] * call.td
                         + (call.c2[i] - call.c1[i]) * ClampRatio(call.tn, call.td)
                diff == 2 * (call.out[i] * call.td - exact)
            IN  /\ call.out[i] \in 0..255
                /\ diff <= call.td
                /\ 0 - diff <= call.td

\* C16: interpolate_color(c1, c2, 0) is c1 and interpolate_color(c1, c2, 1) is c2
C16_InterpolationEndpoints ==
    call.done =>
        /\ (call.tn = 0 => call.out = call.c1)
        /\ (call.tn = call.td => call.out = call.c2)

\* interpolate_color returned c2 at t = 1 for two colors that differ in every channel
C16_Witness ==
    /\ call.done
    /\ call.tn = call.td
    /\ call.c1 = <<0, 127, 255>>
    /\ call.c2 = <<255, 0, 127>>
    /\ call.out = <<255, 0, 127>>

\* C17: hex_to_rgb returns three channels in 0..255 exactly for the strings that
\* are six hex digits after one optional leading '#', and fails for every other
C17_RejectsAllButSixDigits ==
    call.done =>
        LET body == IF call.s # <<>> /\ Head(call.s) = "#" THEN Tail(call.s) ELSE call.s
            valid == Len(body) = 6 /\ \A k \in 1..Len(body) : IsHexDigit(body[k])
        IN  /\ (call.out.err = "none") <=> valid
            /\ valid => \A k \in 1..3 : call.out.val[k] \in 0..255

\* C18: get_text_color returns white exactly when 0.299 R + 0.587 G + 0.114 B is
\* less than half of 255, and (30, 30, 30) otherwise, a luminance of exactly 0.5
\* included
C18_WhiteExactlyBelowHalf ==
    call.done =>
        LET below == 2 * (299 * call.bg[1] + 587 * call.bg[2] + 114 * call.bg[3])
                        < 255 * 1000
        IN  call.out = IF below THEN <<255, 255, 255>> ELSE <<30, 30, 30>>

\* the sizes fit_text measures the text at: start, start - 5, ... above 20
TriedSizes(start) == { start - 5 * k : k \in 0..(start \div 5) } \cap { n \in 0..start : n > 20 }

\* C19: fit_text returns the largest of the sizes start, start - 5, ... above 20 at
\* which the text is no wider than max_width, and 20 when it fits at none of them
C19_LargestFittingSize ==
    call.done =>
        LET fitting == { n \in TriedSizes(call.start) :
                            TextWidth(call.text, n) <= call.max_width }
        IN  IF fitting = {} THEN call.out = 20
            ELSE /\ call.out \in fitting
                 /\ \A n \in fitting : n <= call.out

\* from 100, a text that fits at 40 and not at 45 came back at size 40
C19_Witness ==
    /\ call.done
    /\ call.start = 100
    /\ TextWidth(call.text, 40) <= call.max_width
    /\ TextWidth(call.text, 45) > call.max_width
    /\ call.out = 40

\* C20: fit_text hands back a font only if the text fits at size 20, and the font
\* it hands back is one at which the text fits, of a size from 20 to the start size
C20_ReturnedFontFits ==
    call.done =>
        /\ TextWidth(call.text, 20) <= call.max_width
        /\ TextWidth(call.text, call.out) <= call.max_width
        /\ call.out \in 20..call.start

\* C21: a shadow's buffer exceeds the bounding box of its filled shape by
\* exactly 4*blur in width and in height, and the shape keeps at least 2*blur
\* of transparent padding on each of its four sides, offset included
C21_ShadowBufferPadsTwiceBlur ==
    (call # <<>> /\ call.done) =>
        LET s == call.out
            blur == call.blur
        IN  /\ s.w - (s.rect[3] - s.rect[1]) = 4 * blur
            /\ s.h - (s.rect[4] - s.rect[2]) = 4 * blur
            /\ s.rect[1] >= 2 * blur
            /\ s.rect[2] >= 2 * blur
            /\ s.w - s.rect[3] >= 2 * blur
            /\ s.h - s.rect[4] >= 2 * blur

\* C22: before the blur, the alpha of a glow never increases with the distance
\* from the centre, and every alpha lies in 0..255, whatever the size and
\* whatever the intensity in [0, 1]
C22_GlowFallsOffFromCentre ==
    (call # <<>> /\ call.done) =>
        LET alpha == call.out.alpha
        IN  /\ \A d \in DOMAIN alpha : alpha[d] \in 0..255
            /\ \A d1, d2 \in DOMAIN alpha : d1 <= d2 => alpha[d1] >= alpha[d2]

\* C23: with tilt = 0 create_3d_phone_simple returns the bezel-wrapped frame
\* as it was before the tilt step: the screenshot's size plus the 25 px bezel
\* on each side
C23_ZeroTiltKeepsTheFrame ==
    (call # <<>> /\ call.done /\ call.fn = "create_3d_phone_simple" /\ call.tilt = 0) =>
        /\ call.out.phone.w = call.screenshot.w + 50
        /\ call.out.phone.h = call.screenshot.h + 50
        /\ call.out.phone.w = call.out.frame.w
        /\ call.out.phone.h = call.out.frame.h

\* C24: on every device frame the notch is strictly narrower and strictly
\* shorter than the frame's interior, the area the (scaled) screenshot fills
C24_NotchSmallerThanScreen ==
    (call # <<>> /\ call.done) =>
        LET notch == call.out.frame.notch
            screen == call.out.frame.screen
        IN  /\ notch[3] - notch[1] < screen[3] - screen[1]
            /\ notch[4] - notch[2] < screen[4] - screen[2]

AutoNums ==
    LET auto == SelectSeq(APPROACHES, LAMBDA a : a.auto)
    IN  [k \in 1..Len(auto) |-> auto[k].num]

IsPrefix(s, t) == Len(s) <= Len(t) /\ \A k \in 1..Len(s) : s[k] = t[k]

ResultNums(results) == [k \in 1..Len(results) |-> results[k][1]]

C26_EffectsBeforeTheSubject ==
    parallax.pc = "done" =>
        LET ls == parallax.out.layers
        IN  \A j, k \in 1..Len(ls) :
                (ls[j].kind \in {"phone_shadow", "phone_glow"} /\ ls[k].kind = "phone") =>
                    j < k

\* C27: in every written premium or minimal image the filled rectangle of the
\* shadow lies on the canvas with the subject's size, displaced from the
\* subject's rectangle by the shadow's offset (0, 15)
C27_ShadowDisplacedByItsOffset ==
    \A i \in 0..(idx - 1) :
        LET ls == outputs[OutputName(i)].layers
        IN  \A j, k \in 1..Len(ls) :
                (ls[j].kind = "shadow" /\ ls[k].kind = "screenshot") =>
                    LET rect == ls[j].data
                    IN  /\ rect[3] - rect[1] = ls[k].w
                        /\ rect[4] - rect[2] = ls[k].h
                        /\ ls[j].x + rect[1] = ls[k].x + 0
                        /\ ls[j].y + rect[2] = ls[k].y + 15

\* C28: the storytelling progress bar of entry index of total has exactly
\* total segments, the first index + 1 of them highlighted, as approach 8
\* highlights them for current_step = index + 1; consecutive segments do not
\* overlap and every segment stays within [80, 1290 - 80]
C28_ProgressBarSegments ==
    (call # <<>> /\ call.done /\ call.fn = "storytelling") =>
        LET segs == call.out
            other == create_progress_bar(BlankCanvas, 0,
                                         call.index + 1, call.total, IPHONE_W).layers
            total == call.total
        IN  /\ Len(segs) = total
            /\ \A k \in 1..Len(segs) : segs[k].data[5] <=> (k <= call.index + 1)
            /\ Len(other) = Len(segs)
            /\ \A k \in 1..Len(segs) : segs[k].data[5] <=> other[k].data[5]
            /\ \A k \in 1..(Len(segs) - 1) : segs[k].data[4] <= segs[k + 1].data[3]
            /\ \A k \in 1..Len(segs) :
                  /\ 80 * total <= segs[k].data[3]
                  /\ segs[k].data[3] <= (IPHONE_W - 80) * total
                  /\ 80 * total <= segs[k].data[4]
                  /\ segs[k].data[4] <= (IPHONE_W - 80) * total

\* the renderers whose mark is in an image: the bubbles of _create_imessage, the
\* ruled lines of _create_notes, the avatar of _create_twitter, the "POV:" label
\* of _create_pov
RenderersIn(img) ==
    {f \in {"imessage", "notes", "twitter", "pov"} :
        HasLayer(img, CASE f = "imessage" -> "bubble"
                        [] f = "notes" -> "lines"
                        [] f = "twitter" -> "avatar"
                        [] OTHER -> "pov_label")}

\* the format the entry of a call is expected in
ExpectedFormat ==
    LET named == IF Has(call.shot.format) THEN call.shot.format[1]
                 ELSE <<"imessage", "notes", "twitter", "pov">>[(call.index % 4) + 1]
    IN  IF named \in {"imessage", "notes", "twitter"} THEN named ELSE "pov"

\* C29: an authentic entry without 'format' is rendered in the format
\* imessage, notes, twitter, pov its index modulo 4 selects, an explicit
\* 'format' is rendered whatever the index, any other format value is rendered
\* as POV, and exactly one renderer runs per entry
C29_AuthenticFormatByIndexOrKey ==
    (call # <<>> /\ call.done) =>
        LET path == raw_path(call.shot)
            expected == ExpectedFormat
        IN  /\ call.out =
                  CASE expected = "imessage" -> create_imessage(rng, path, call.shot)
                    [] expected = "notes" -> create_notes(rng, path, call.shot)
                    [] expected = "twitter" -> create_twitter(rng, path, call.shot)
                    [] OTHER -> create_pov(rng, path, call.shot)
            /\ call.out.err = "none" => RenderersIn(call.out.img) = {expected}

\* entry 5, which names no format, came out as notes: 5 modulo 4 selects the
\* second format
C29_Witness ==
    /\ call # <<>>
    /\ call.done
    /\ call.out.err = "none"
    /\ call.index = 5
    /\ ~Has(call.shot.format)
    /\ RenderersIn(call.out.img) = {"notes"}

\* C30: wrap_text neither loses, duplicates nor reorders a word, whatever the
\* text and max_width, a word wider than max_width included: the returned
\* lines joined by single spaces are the words of text.split() in their order,
\* and no returned line is empty
C30_WrapTextKeepsTheWords ==
    (call # <<>> /\ call.done) =>
        /\ join(call.out) = join(split(call.text))
        /\ split(join(call.out)) = split(call.text)
        /\ \A k \in 1..Len(call.out) : call.out[k] # <<>>

\* a text of two words, the first wider than max_width, came back on two lines
C30_Witness ==
    /\ call # <<>>
    /\ call.done
    /\ call.text = <<"a", "b", "a", " ", "b">>
    /\ call.max_width = 22
    /\ call.out = << <<"a", "b", "a">>, <<"b">> >>

====
